---- MODULE Spec2Model ----
(***************************************************************************)
(* A model of the Enclave messaging core (src/enclave): the message        *)
(* protocol (message.py over crypto.py), the replay window, the listener's *)
(* receive path, send_message, the connection pool and                     *)
(* send_batch_messages (network.py), and the peer-key cache of keystore.py.*)
(*                                                                         *)
(* Cryptography and msgpack are libraries outside the repository.  They    *)
(* are modelled symbolically as ideal primitives: a signature is the pair  *)
(* (signer, signed bytes), an RSA-OAEP wrapped key is the pair (recipient, *)
(* key), an AES-GCM ciphertext is (key, nonce, data) and its tag is        *)
(* (key, nonce, ciphertext).  Bytes on the wire are a msgpack map: a       *)
(* header with the number of pairs and the flat list of typed keys and     *)
(* values, in the insertion order of the Python dict.                      *)
(***************************************************************************)
EXTENDS Integers, Sequences, FiniteSets, TLC

VARIABLES
    \* ---- message protocol scenario (message.py called directly)
    m_pc,        \* "start" | "built" | "sent" | "done"
    m_in,        \* arguments of create_message
    m_built,     \* result of create_message
    m_wire,      \* bytes handed to parse_message (possibly modified in transit)
    m_tamper,    \* which envelope field was modified in transit ("none")
    m_rx,        \* receiver's arguments: the keys and its time.time()
    m_result,    \* result of verify_and_decrypt(parse_message(m_wire), ...)
    m_passed,    \* the stages that call of verify_and_decrypt went through
    \* ---- module state of message.py
    seen,        \* _seen_message_ids: deque(maxlen), oldest first
    lock,        \* _seen_ids_lock: the thread holding it, or 0 when free
    \* ---- threads calling check_duplicate
    rp_pc,       \* per thread: "idle" | "wait" | "check" | "append" | "done"
    rp_arg,      \* per thread: the message_id of its call
    rp_ret,      \* per thread: the value returned
    rp_hist,     \* the calls in the order they completed: id, window before, result
    rp_start,    \* the ids in the window when the threads started
    rp_evicted,  \* the ids the deque dropped since
    \* ---- ChatServer (the listener of "bob") and keystore.py
    running,       \* self.running
    now,           \* the listener's clock, time.time()
    message_queue, \* self.message_queue: the payloads put and not yet taken
    a_pc,          \* the accept loop: "off" | "accept" | "exited"
    arrived,       \* number of connections of other peers accepted so far
    handlers,      \* number of those whose handler has not finished
    traffic,       \* the payloads the other peers send (indices into Payloads or
                   \* CopyPayloads)
    key_cache,     \* _peer_key_cache: fingerprint -> public key
    w_pc,          \* per worker: "get" | "dup" | "verify" | "callback" | "dead"
    w_item,        \* per worker: the payload it took from the queue
    w_env,         \* per worker: envelope = parse_message(data), None before it parsed
    w_key,         \* per worker: sender_public_key
    w_res,         \* per worker: plaintext returned by verify_and_decrypt
    w_vnow,        \* per worker: the time.time() verify_and_decrypt read
    w_trace,       \* per worker: the stages its payload went through
    w_done,        \* per worker: the outcome of the payload it finished last
    w_drops,       \* per worker: number of payloads it dropped
    processed,     \* number of payloads the workers are done with
    delivered,     \* the invocations of message_callback: (f, p, t)
    \* ---- ChatServer.stop() and the listening socket
    st_pc,         \* the thread calling stop(): "idle" | "close" | "shutdown" | "returned"
    server_socket, \* self.server_socket: "none" | "listening" | "closed"
    st_late,       \* the connections accept() returned after stop() returned
    \* ---- send_message in the threads of the process of "alice"
    s_pc,          \* per thread: "off" | "call" | "dial" | "send_len" | "send_data" | "return" | "done"
    s_in,          \* per thread: the arguments of its call and the clock of the sender
    s_msg,         \* per thread: message_data = create_message(...)
    s_ret,         \* per thread: the value returned or the exception raised
    s_sock,        \* per thread: sock, the socket of its call (0 for None)
    s_calls,       \* number of calls of send_message made so far
    \* ---- the sockets of the sender and the listener's end of each
    pool,          \* _connection_pool.pools[host:port]: (sock, timestamp), oldest first
    conn,          \* per socket created: host, state of both ends, bytes written on it
    h_pc,          \* per socket, its handler: "none" | "recv_len" | "recv_data" | "put" | "close" | "done"
    h_data,        \* per socket: message_data read by the handler
    h_done,        \* per socket, what the handler did with the frame: "none" | "enqueued" | "shed" | "eof"
    \* ---- threads calling the ConnectionPool directly
    pool_locks,    \* self.pool_locks[host:port]: the thread holding it, or 0 when free
    p_pc,          \* per thread: "idle" | "in get" | "in return"
    p_key,         \* per thread: the (host, port) of its call
    p_sock,        \* per thread: the socket it holds (0 for none)
    p_now,         \* time.time() in the process of the sender
    p_before,      \* the bucket as the latest traced get_connection found it
                   \* (kept where the claims about get_connection are checked)
    \* ---- send_batch_messages; its executor threads are the threads of send_message
    b_pc,          \* "off" | "enter" | "submit" | "collect" | "shutdown" | "done" | "raised"
    b_recipients,  \* recipients: (host, port, fingerprint), in the order of the list
    b_next,        \* position in "for future in futures"
    b_results,     \* results: fingerprint -> bool
    b_errors,      \* errors: fingerprint -> str(e)
    b_late,        \* the futures whose future.result(timeout=15) timed out
    \* ---- threads calling keystore.load_peer_key
    cache_lock,    \* _cache_lock: the thread holding it, or 0 when free
    k_pc,          \* per thread: "idle" | "check" | "read" | "disk" | "insert" | "locked" | "done"
    k_arg,         \* per thread: fingerprint
    k_key,         \* per thread: public_key, read from disk
    k_ret,         \* per thread: the value returned or the exception raised
    k_reads,       \* per thread: number of reads of the peer's file in its call
    k_calls,       \* number of calls of load_peer_key made so far
    \* ---- keystore.py: the files under keys/peers and the calls of add_peer_key
    PEERS_DIR,     \* the files <name>.pem under keys/peers, each with its bytes
    ap_hist,       \* the calls of add_peer_key: path, result, PEERS_DIR before and after
    \* ---- preload_all_peer_keys; its executor threads are threads of load_peer_key
    pl_pc,           \* "off" | "call" | "map" | "done" | "raised"
    pl_fingerprints, \* fingerprints = list_peers()
    pl_next,         \* number of items of executor.map handed to a thread
    pl_task,         \* per thread: the position of the item it runs (0 for none)
    pl_results,      \* per item: None, or what load_single_key returned or raised
    pl_ret,          \* the value preload_all_peer_keys returned
    \* ---- a thread calling clear_peer_key_cache
    cl_pc,         \* "idle" | "wait" | "locked" | "returned"
    cl_before,     \* the fingerprints in the cache when it was called
    cl_next,       \* the fingerprints load_peer_key looked up after it returned
    k_after        \* per thread of load_peer_key: its lookup is the first of its
                   \* fingerprint made after clear_peer_key_cache returned

msgVars == <<m_pc, m_in, m_built, m_wire, m_tamper, m_rx, m_result, m_passed>>
rpVars == <<lock, rp_pc, rp_arg, rp_ret, rp_hist, rp_start, rp_evicted>>
wVars == <<w_pc, w_item, w_env, w_key, w_res, w_vnow, w_trace, w_done, w_drops, processed>>
accVars == <<a_pc, handlers, traffic>>
stopVars == <<st_pc, server_socket, st_late>>
sendVars == <<s_pc, s_in, s_msg, s_ret, s_sock, s_calls>>
connVars == <<pool, conn, h_pc, h_data, h_done>>
poolVars == <<pool_locks, p_pc, p_key, p_sock, p_now, p_before>>
batchVars == <<b_pc, b_recipients, b_next, b_results, b_errors, b_late>>
storeVars == <<PEERS_DIR, ap_hist>>
preloadVars == <<pl_pc, pl_fingerprints, pl_next, pl_task, pl_results, pl_ret>>
clearVars == <<cl_pc, cl_before, cl_next, k_after>>
keyVars == <<cache_lock, k_pc, k_arg, k_key, k_ret, k_reads, k_calls, storeVars, preloadVars,
             clearVars>>
threadVars == <<poolVars, batchVars, keyVars>>
netVars == <<sendVars, connVars, threadVars>>
srvVars == <<running, now, message_queue, a_pc, arrived, handlers, traffic, key_cache,
             w_pc, w_item, w_env, w_key, w_res, w_vnow, w_trace, w_done, w_drops,
             processed, delivered, stopVars>>
vars == <<m_pc, m_in, m_built, m_wire, m_tamper, m_rx, m_result, m_passed, seen, lock,
          rp_pc, rp_arg, rp_ret, rp_hist, rp_start, rp_evicted,
          running, now, message_queue, a_pc, arrived, handlers, traffic, key_cache,
          w_pc, w_item, w_env, w_key, w_res, w_vnow, w_trace, w_done, w_drops, processed,
          delivered, st_pc, server_socket, st_late,
          s_pc, s_in, s_msg, s_ret, s_sock, s_calls,
          pool, conn, h_pc, h_data, h_done,
          pool_locks, p_pc, p_key, p_sock, p_now, p_before,
          b_pc, b_recipients, b_next, b_results, b_errors, b_late,
          cache_lock, k_pc, k_arg, k_key, k_ret, k_reads, k_calls,
          PEERS_DIR, ap_hist,
          pl_pc, pl_fingerprints, pl_next, pl_task, pl_results, pl_ret,
          cl_pc, cl_before, cl_next, k_after>>

(***************************************************************************)
(* Python results: a returned value or a raised exception.                 *)
(***************************************************************************)
Ok(v) == [ok |-> TRUE, val |-> v]
Raise(exc, msg) == [ok |-> FALSE, exc |-> exc, msg |-> msg]
None == [none |-> TRUE]

(***************************************************************************)
(* Typed msgpack values (use_bin_type=True keeps str and bin apart).       *)
(***************************************************************************)
MpInt(i) == [int |-> i]
MpFloat(x) == [float |-> x]
MpStr(s) == [str |-> s]
MpBin(b) == [bin |-> b]

IsNum(v) == "int" \in DOMAIN v \/ "float" \in DOMAIN v
Num(v) == IF "int" \in DOMAIN v THEN v.int ELSE v.float

(***************************************************************************)
(* A Python dict: a sequence of [k, v] pairs in insertion order.           *)
(***************************************************************************)
Has(d, key) == \E i \in 1..Len(d) : d[i].k = key
Get(d, key) == d[CHOOSE i \in 1..Len(d) : d[i].k = key].v
Del(d, key) == SelectSeq(d, LAMBDA p : p.k # key)
Put(d, key, val) ==
    IF Has(d, key)
    THEN [i \in 1..Len(d) |-> IF d[i].k = key THEN [k |-> key, v |-> val] ELSE d[i]]
    ELSE Append(d, [k |-> key, v |-> val])

(***************************************************************************)
(* msgpack.packb / msgpack.unpackb.  The bytes of a map are its size and   *)
(* the flat run k1, v1, k2, v2, ...; any other bytes are not a map.        *)
(***************************************************************************)
packb(d) ==
    [map |-> Len(d),
     body |-> [j \in 1..(2 * Len(d)) |->
                 IF j % 2 = 1 THEN MpStr(d[(j + 1) \div 2].k) ELSE d[j \div 2].v]]

unpackb(data) ==
    IF "map" \in DOMAIN data /\ Len(data.body) = 2 * data.map
    THEN Ok([i \in 1..data.map |-> [k |-> data.body[2 * i - 1].str, v |-> data.body[2 * i]]])
    ELSE Raise("Exception", "unpack failed")

(***************************************************************************)
(* Plaintext.  A str is modelled run-length encoded, as a sequence of runs *)
(* [ch, n] (n copies of character ch), adjacent runs of different          *)
(* characters.  Characters are Unicode scalar values with UTF-8 encodings  *)
(* of one and two bytes, so the length in characters and the length in     *)
(* bytes differ.                                                           *)
(***************************************************************************)
Chars == {"a", "e_acute"}
Utf8(ch) == IF ch = "a" THEN <<97>> ELSE <<195, 169>>

RECURSIVE SumRuns(_)
SumRuns(s) == IF s = <<>> THEN 0 ELSE s[1].n + SumRuns(Tail(s))
\* len(plaintext), in characters
StrLen(s) == SumRuns(s)

\* a sender that encodes with errors='replace' into ASCII
encode_ascii_replace(s) ==
    [i \in 1..Len(s) |-> [bytes |-> IF s[i].ch = "a" THEN <<97>> ELSE <<63>>, n |-> s[i].n]]
\* plaintext.encode('utf-8')
encode_utf8(s) == [i \in 1..Len(s) |-> [bytes |-> Utf8(s[i].ch), n |-> s[i].n]]
\* plaintext_bytes.decode('utf-8')
decode_utf8(b) ==
    IF \A i \in 1..Len(b) : \E ch \in Chars : Utf8(ch) = b[i].bytes
    THEN Ok([i \in 1..Len(b) |->
               [ch |-> CHOOSE ch \in Chars : Utf8(ch) = b[i].bytes, n |-> b[i].n]])
    ELSE Raise("UnicodeDecodeError", "invalid utf-8")

(***************************************************************************)
(* Keys.  A key pair is named by its owner; the fingerprint is the SHA-256 *)
(* of the public key file, one per key.                                    *)
(***************************************************************************)
Owners == {"alice", "bob", "eve"}
PrivateKey(o) == [priv |-> o]
PublicKey(o) == [pub |-> o]
Fingerprint(o) == o

(***************************************************************************)
(* crypto.py                                                               *)
(***************************************************************************)
\* AESGCM(aes_key).encrypt(nonce, data, None), split as in encrypt_message
GcmCiphertext(aes_key, nonce, data) == [key |-> aes_key, nonce |-> nonce, data |-> data]
GcmTag(aes_key, nonce, ct) == [key |-> aes_key, nonce |-> nonce, over |-> ct]
\* recipient_public_key.encrypt(aes_key, OAEP)
OaepWrap(aes_key, public_key) == [to |-> public_key.pub, key |-> aes_key]

encrypt_message(plaintext, recipient_public_key, aes_key, nonce) ==
    LET ciphertext_only == GcmCiphertext(aes_key, nonce, encode_utf8(plaintext))
    IN [encrypted_key |-> OaepWrap(aes_key, recipient_public_key),
        ciphertext |-> ciphertext_only,
        nonce |-> nonce,
        tag |-> GcmTag(aes_key, nonce, ciphertext_only)]

\* The two messages of lines 174-177 are both ValueError; which one is raised
\* depends on the library's exception text and no caller tells them apart.
DecryptFailed == Raise("ValueError", "decrypt_message failed")

decrypt_message(envelope, private_key) ==
    LET ek == envelope.encrypted_key
        ct == envelope.ciphertext
        nonce == envelope.nonce
        tag == envelope.tag
    IN  IF ~("bin" \in DOMAIN ek /\ "to" \in DOMAIN ek.bin /\ ek.bin.to = private_key.priv)
        THEN DecryptFailed
        ELSE IF ~("bin" \in DOMAIN ct /\ "bin" \in DOMAIN tag /\ "bin" \in DOMAIN nonce
                  /\ tag.bin = GcmTag(ek.bin.key, nonce.bin, ct.bin))
        THEN DecryptFailed
        \* a tag forged with the key over a ciphertext of another key stream:
        \* the decrypted bytes are noise, which .decode('utf-8') rejects
        ELSE IF ~("data" \in DOMAIN ct.bin /\ ct.bin.key = ek.bin.key
                  /\ ct.bin.nonce = nonce.bin)
        THEN DecryptFailed
        ELSE LET text == decode_utf8(ct.bin.data)
             IN IF text.ok THEN text ELSE DecryptFailed

sign_message(data, private_key) == [signer |-> private_key.priv, data |-> data]

\* a verification that checks who signed, not what was signed
verify_signer_only(data, signature, public_key) ==
    /\ "bin" \in DOMAIN signature
    /\ "signer" \in DOMAIN signature.bin
    /\ signature.bin.signer = public_key.pub

verify_signature(data, signature, public_key) ==
    /\ "bin" \in DOMAIN signature
    /\ "signer" \in DOMAIN signature.bin
    /\ signature.bin.signer = public_key.pub
    /\ signature.bin.data = data
(***************************************************************************)
(* message.py                                                              *)
(***************************************************************************)
MAX_PLAINTEXT == 10000
FRESHNESS_WINDOW == 300
PROTOCOL_VERSION == 1

required_fields ==
    <<"version", "message_id", "timestamp", "sender_fingerprint",
      "encrypted_key", "ciphertext", "nonce", "tag", "signature">>

\* The envelope dict of create_message before the signature is added.
unsigned_envelope(message_id, timestamp, sender_fingerprint, enc) ==
    << [k |-> "version", v |-> MpInt(PROTOCOL_VERSION)],
       [k |-> "message_id", v |-> MpStr(message_id)],
       [k |-> "timestamp", v |-> MpFloat(timestamp)],
       [k |-> "sender_fingerprint", v |-> MpStr(sender_fingerprint)],
       [k |-> "encrypted_key", v |-> MpBin(enc.encrypted_key)],
       [k |-> "ciphertext", v |-> MpBin(enc.ciphertext)],
       [k |-> "nonce", v |-> MpBin(enc.nonce)],
       [k |-> "tag", v |-> MpBin(enc.tag)] >>

never_too_large(plaintext) == FALSE
too_large_at_limit(plaintext) == StrLen(plaintext) >= MAX_PLAINTEXT
\* the size check of create_message
too_large(plaintext) == StrLen(plaintext) > MAX_PLAINTEXT

\* create_message; rnd holds what the call draws: uuid4, time.time(), os.urandom.
create_message(plaintext, recipient_public_key, sender_private_key, sender_fingerprint, rnd) ==
    IF too_large(plaintext)
    THEN Raise("ValueError", "Message too large (max 10,000 chars)")
    ELSE LET enc == encrypt_message(plaintext, recipient_public_key, rnd.aes_key, rnd.nonce)
             envelope == unsigned_envelope(rnd.message_id, rnd.timestamp,
                                           sender_fingerprint, enc)
             signature == sign_message(packb(envelope), sender_private_key)
         IN Ok(packb(Put(envelope, "signature", MpBin(signature))))

parse_message(data) ==
    LET unpacked == unpackb(data)
    IN  IF ~unpacked.ok
        THEN Raise("ValueError", "Invalid message format")
        ELSE IF \E i \in 1..Len(required_fields) : ~Has(unpacked.val, required_fields[i])
        THEN Raise("ValueError", "Invalid message format")
        ELSE IF Get(unpacked.val, "version") # MpInt(PROTOCOL_VERSION)
        THEN Raise("ValueError", "Invalid message format")
        ELSE unpacked

too_old_at_limit(message_time, current_time) ==
    message_time <= current_time - FRESHNESS_WINDOW
never_in_future(message_time, current_time) == FALSE
\* the two timestamp checks of verify_and_decrypt
too_far_in_future(message_time, current_time) ==
    message_time > current_time + FRESHNESS_WINDOW
too_old(message_time, current_time) ==
    message_time < current_time - FRESHNESS_WINDOW

\* a verify_and_decrypt that checks the timestamp before the signature
timestamp_before_signature(envelope, sender_public_key, my_private_key, current_time) ==
    LET signature == Get(envelope, "signature")
        envelope_bytes == packb(Del(envelope, "signature"))
        message_time == Get(envelope, "timestamp")
    IN  IF ~IsNum(message_time)
        THEN [res |-> Raise("TypeError", "unorderable timestamp"), passed |-> <<>>]
        ELSE IF too_far_in_future(Num(message_time), current_time)
        THEN [res |-> Raise("ValueError", "Message timestamp too far in future"),
              passed |-> <<>>]
        ELSE IF too_old(Num(message_time), current_time)
        THEN [res |-> Raise("ValueError", "Message timestamp too old"), passed |-> <<>>]
        ELSE IF ~verify_signature(envelope_bytes, signature, sender_public_key)
        THEN [res |-> Raise("ValueError", "Invalid signature"),
              passed |-> <<"FreshnessChecked">>]
        ELSE LET plaintext ==
                     decrypt_message([encrypted_key |-> Get(envelope, "encrypted_key"),
                                      ciphertext |-> Get(envelope, "ciphertext"),
                                      nonce |-> Get(envelope, "nonce"),
                                      tag |-> Get(envelope, "tag")], my_private_key)
             IN IF plaintext.ok
                THEN [res |-> plaintext,
                      passed |-> <<"FreshnessChecked", "SignatureVerified", "Decrypted">>]
                ELSE [res |-> plaintext,
                      passed |-> <<"FreshnessChecked", "SignatureVerified">>]

\* verify_and_decrypt; current_time is the call's time.time().  "passed" lists
\* the stages the call went through before it returned or raised.
verify_and_decrypt(envelope, sender_public_key, my_private_key, current_time) ==
    LET signature == Get(envelope, "signature")
        envelope_bytes == packb(Del(envelope, "signature"))
        message_time == Get(envelope, "timestamp")
    IN  IF ~verify_signature(envelope_bytes, signature, sender_public_key)
        THEN [res |-> Raise("ValueError", "Invalid signature"), passed |-> <<>>]
        ELSE IF ~IsNum(message_time)
        THEN [res |-> Raise("TypeError", "unorderable timestamp"),
              passed |-> <<"SignatureVerified">>]
        ELSE IF too_far_in_future(Num(message_time), current_time)
        THEN [res |-> Raise("ValueError", "Message timestamp too far in future"),
              passed |-> <<"SignatureVerified">>]
        ELSE IF too_old(Num(message_time), current_time)
        THEN [res |-> Raise("ValueError", "Message timestamp too old"),
              passed |-> <<"SignatureVerified">>]
        ELSE LET plaintext ==
                     decrypt_message([encrypted_key |-> Get(envelope, "encrypted_key"),
                                      ciphertext |-> Get(envelope, "ciphertext"),
                                      nonce |-> Get(envelope, "nonce"),
                                      tag |-> Get(envelope, "tag")], my_private_key)
             IN IF plaintext.ok
                THEN [res |-> plaintext,
                      passed |-> <<"SignatureVerified", "FreshnessChecked", "Decrypted">>]
                ELSE [res |-> plaintext,
                      passed |-> <<"SignatureVerified", "FreshnessChecked">>]
(***************************************************************************)
(* Bounds of the inputs.                                                   *)
(***************************************************************************)
MaxRuns == 2
T0 == 100000
RunLengths == {1, MAX_PLAINTEXT - 1, MAX_PLAINTEXT}
Runs == [ch : Chars, n : RunLengths]

RECURSIVE StrsOfRuns(_)
StrsOfRuns(k) ==
    IF k = 0 THEN {<<>>}
    ELSE LET shorter == StrsOfRuns(k - 1)
         IN shorter \cup
            {Append(s, r) : s \in {x \in shorter : Len(x) = k - 1}, r \in Runs}
\* every str of at most MaxRuns runs; adjacent runs differ in their character
PlainTexts ==
    {s \in StrsOfRuns(MaxRuns) : \A i \in 1..(Len(s) - 1) : s[i].ch # s[i + 1].ch}

MessageIds == {"id1", "id2"}
AesKeys == {1, 2}
Nonces == {1, 2}
Peers == {"alice", "bob"}
\* the receiver's clock relative to the timestamp of the envelope
Skews == {0 - 301, 0 - 300, 0 - 299, 0, 299, 300, 301}

(***************************************************************************)
(* The message protocol called directly: create_message, the bytes in      *)
(* transit (where one field may be given another value), then              *)
(* parse_message and verify_and_decrypt at the receiver.                   *)
(***************************************************************************)
signed_fields ==
    {"message_id", "timestamp", "sender_fingerprint",
     "encrypted_key", "ciphertext", "nonce", "tag"}

\* values of the field's type that an envelope in transit may be given
FieldValues(field) ==
    CASE field = "message_id" -> {MpStr(i) : i \in MessageIds}
      [] field = "timestamp" -> {MpFloat(T0), MpFloat(T0 + 1), MpInt(T0)}
      [] field = "sender_fingerprint" -> {MpStr(Fingerprint(o)) : o \in Owners}
      [] field = "encrypted_key" ->
            {MpBin(OaepWrap(k, PublicKey(o))) : k \in AesKeys, o \in {"bob", "eve"}}
      [] field = "ciphertext" ->
            {MpBin(GcmCiphertext(k, 1, encode_utf8(p))) :
                k \in AesKeys, p \in {<<>>, <<[ch |-> "a", n |-> 1]>>}}
      [] field = "nonce" -> {MpBin(n) : n \in Nonces}
      [] field = "tag" ->
            {MpBin(GcmTag(k, 1, GcmCiphertext(k, 1, <<>>))) : k \in AesKeys}
            \cup {MpBin([noise |-> 1])}

\* the bytes with one field of the map given another value
SetField(data, field, val) == packb(Put(unpackb(data).val, field, val))

receive(data, sender_public_key, my_private_key, current_time) ==
    LET envelope == parse_message(data)
    IN IF envelope.ok
       THEN verify_and_decrypt(envelope.val, sender_public_key,
                               my_private_key, current_time).res
       ELSE envelope

\* the stages of verify_and_decrypt in that call
receive_passed(data, sender_public_key, my_private_key, current_time) ==
    LET envelope == parse_message(data)
    IN IF envelope.ok
       THEN verify_and_decrypt(envelope.val, sender_public_key,
                               my_private_key, current_time).passed
       ELSE <<>>

MsgCreate ==
    /\ m_pc = "start"
    /\ \E id \in MessageIds, k \in AesKeys, n \in Nonces :
         LET built == create_message(m_in.plaintext, PublicKey(m_in.recipient),
                                     PrivateKey(m_in.sender), Fingerprint(m_in.sender),
                                     [message_id |-> id, timestamp |-> T0,
                                      aes_key |-> k, nonce |-> n])
         IN /\ m_built' = built
            /\ m_wire' = IF built.ok THEN built.val ELSE None
            /\ m_pc' = IF built.ok THEN "built" ELSE "failed"
    /\ UNCHANGED <<m_in, m_tamper, m_rx, m_result, m_passed, seen, rpVars, srvVars, netVars>>

MsgTamper ==
    /\ m_pc = "built"
    /\ m_tamper = "none"
    /\ \E field \in signed_fields :
         \E val \in FieldValues(field) \ {Get(unpackb(m_wire).val, field)} :
            /\ m_wire' = SetField(m_wire, field, val)
            /\ m_tamper' = field
    /\ UNCHANGED <<m_pc, m_in, m_built, m_rx, m_result, m_passed, seen, rpVars,
                   srvVars, netVars>>

MsgReceive ==
    /\ m_pc = "built"
    /\ \E skew \in Skews, vs \in {m_in.sender, "eve"}, vr \in {m_in.recipient, "eve"} :
         /\ m_rx' = [sender |-> vs, me |-> vr, now |-> T0 + skew]
         /\ m_result' = receive(m_wire, PublicKey(vs), PrivateKey(vr), T0 + skew)
         /\ m_passed' = receive_passed(m_wire, PublicKey(vs), PrivateKey(vr), T0 + skew)
    /\ m_pc' = "done"
    /\ UNCHANGED <<m_in, m_built, m_wire, m_tamper, seen, rpVars, srvVars, netVars>>

\* no listener
\* stop() is not called
StopIdle ==
    /\ st_pc = "idle" /\ server_socket = "none" /\ st_late = {}

ServerOff ==
    /\ StopIdle
    /\ running = FALSE /\ now = T0 /\ message_queue = <<>>
    /\ a_pc = "off" /\ arrived = 0 /\ handlers = 0 /\ traffic = {}
    /\ key_cache = <<>>
    /\ w_pc = <<>> /\ w_item = <<>> /\ w_env = <<>> /\ w_key = <<>> /\ w_res = <<>>
    /\ w_vnow = <<>>
    /\ w_trace = <<>> /\ w_done = <<>> /\ w_drops = <<>> /\ processed = 0
    /\ delivered = <<>>

\* nobody sends
\* no thread calls the connection pool directly
PoolIdle ==
    /\ pool_locks = <<>>
    /\ p_pc = <<>> /\ p_key = <<>> /\ p_sock = <<>>
    /\ p_now = T0
    /\ p_before = <<>>

\* send_batch_messages is not called
BatchIdle ==
    /\ b_pc = "off" /\ b_recipients = <<>> /\ b_next = 0
    /\ b_results = <<>> /\ b_errors = <<>> /\ b_late = {}

\* no thread calls load_peer_key directly
LoadsIdle ==
    /\ cache_lock = 0
    /\ k_pc = <<>> /\ k_arg = <<>> /\ k_key = <<>> /\ k_ret = <<>> /\ k_reads = <<>>
    /\ k_calls = 0

\* add_peer_key is not called
StoreIdle ==
    /\ PEERS_DIR = {}
    /\ ap_hist = <<>>

\* preload_all_peer_keys is not called
PreloadIdle ==
    /\ pl_pc = "off" /\ pl_fingerprints = <<>> /\ pl_next = 0
    /\ pl_task = <<>> /\ pl_results = <<>> /\ pl_ret = None

\* clear_peer_key_cache is not called
ClearIdle ==
    /\ cl_pc = "idle" /\ cl_before = {} /\ cl_next = {}

KeysIdle == LoadsIdle /\ StoreIdle /\ PreloadIdle /\ ClearIdle /\ k_after = <<>>

ThreadsIdle == PoolIdle /\ BatchIdle /\ KeysIdle

NetIdle ==
    /\ s_pc = <<>> /\ s_in = <<>> /\ s_msg = <<>> /\ s_ret = <<>> /\ s_sock = <<>>
    /\ s_calls = 0
    /\ pool = <<>>
    /\ conn = <<>>
    /\ h_pc = <<>> /\ h_data = <<>> /\ h_done = <<>>
    /\ ThreadsIdle

\* no thread is calling check_duplicate
ReplayIdle ==
    /\ lock = 0
    /\ rp_pc = <<>> /\ rp_arg = <<>> /\ rp_ret = <<>>
    /\ rp_hist = <<>> /\ rp_start = {} /\ rp_evicted = {}

InitMsg ==
    /\ m_pc = "start"
    /\ m_in \in [plaintext : PlainTexts, sender : Peers, recipient : Peers]
    /\ m_built = None
    /\ m_wire = None
    /\ m_tamper = "none"
    /\ m_rx = None
    /\ m_result = None
    /\ m_passed = <<>>
    /\ seen = <<>>
    /\ ReplayIdle
    /\ ServerOff
    /\ NetIdle

NextMsg == MsgCreate \/ MsgTamper \/ MsgReceive

SpecMsg == InitMsg /\ [][NextMsg]_vars
(***************************************************************************)
(* The replay window: check_duplicate, called by several threads.  The     *)
(* deque is bounded by SeenMaxlen, which stands for maxlen=10000.          *)
(***************************************************************************)
SeenMaxlen == 2
NumCallers == 3
ReplayIds == {"id1", "id2", "id3"}
Callers == 1..NumCallers

Range(q) == {q[i] : i \in 1..Len(q)}

\* a bounded list that refuses a new id when it is full
append_unless_full(q, x) == IF Len(q) < SeenMaxlen THEN Append(q, x) ELSE q
\* a bounded list that makes room by dropping its newest entry
append_dropping_newest(q, x) ==
    IF Len(q) < SeenMaxlen THEN Append(q, x) ELSE Append(SubSeq(q, 1, Len(q) - 1), x)
\* deque(maxlen).append: a full deque drops its oldest entry
deque_append(q, x) ==
    IF Len(q) < SeenMaxlen THEN Append(q, x) ELSE Append(Tail(q), x)

\* a check that records the id and reports every id as new
record_without_check(q, message_id) ==
    [ret |-> FALSE,
     seen |-> IF message_id \in Range(q) THEN q ELSE deque_append(q, message_id)]

\* a check that records nothing
check_without_record(q, message_id) == [ret |-> message_id \in Range(q), seen |-> q]

\* check_duplicate as one step (its body runs under _seen_ids_lock)
check_duplicate(q, message_id) ==
    IF message_id \in Range(q)
    THEN [ret |-> TRUE, seen |-> q]
    ELSE [ret |-> FALSE, seen |-> deque_append(q, message_id)]

lock_not_taken(l) == TRUE
\* "with _seen_ids_lock": a thread enters only when no thread holds the lock
lock_available(l) == l = 0

MsgIdle ==
    /\ m_pc = "off" /\ m_in = None /\ m_built = None /\ m_wire = None
    /\ m_tamper = "none" /\ m_rx = None /\ m_result = None /\ m_passed = <<>>

\* every window the deque can hold: no id twice, at most SeenMaxlen ids
Windows ==
    {q \in UNION {[1..n -> ReplayIds] : n \in 0..SeenMaxlen} :
        \A i, j \in 1..Len(q) : i # j => q[i] # q[j]}

RpCall(t) ==
    /\ rp_pc[t] = "idle"
    /\ \E id \in ReplayIds : rp_arg' = [rp_arg EXCEPT ![t] = id]
    /\ rp_pc' = [rp_pc EXCEPT ![t] = "wait"]
    /\ UNCHANGED <<msgVars, srvVars, netVars, seen, lock, rp_ret, rp_hist, rp_start, rp_evicted>>

RpAcquire(t) ==
    /\ rp_pc[t] = "wait"
    /\ lock_available(lock)
    /\ lock' = t
    /\ rp_pc' = [rp_pc EXCEPT ![t] = "check"]
    /\ UNCHANGED <<msgVars, srvVars, netVars, seen, rp_arg, rp_ret, rp_hist, rp_start,
                   rp_evicted>>

\* "if message_id in _seen_message_ids: return True" (the return releases the lock)
RpCheck(t) ==
    /\ rp_pc[t] = "check"
    /\ IF rp_arg[t] \in Range(seen)
       THEN /\ rp_ret' = [rp_ret EXCEPT ![t] = TRUE]
            /\ rp_hist' = Append(rp_hist, [id |-> rp_arg[t], before |-> Range(seen),
                                           ret |-> TRUE])
            /\ rp_pc' = [rp_pc EXCEPT ![t] = "done"]
            /\ lock' = 0
       ELSE /\ rp_pc' = [rp_pc EXCEPT ![t] = "append"]
            /\ UNCHANGED <<rp_ret, rp_hist, lock>>
    /\ UNCHANGED <<msgVars, srvVars, netVars, seen, rp_arg, rp_start, rp_evicted>>

\* "_seen_message_ids.append(message_id); return False"
RpAppend(t) ==
    /\ rp_pc[t] = "append"
    /\ seen' = deque_append(seen, rp_arg[t])
    /\ rp_evicted' = rp_evicted \cup (Range(seen) \ Range(seen'))
    /\ rp_ret' = [rp_ret EXCEPT ![t] = FALSE]
    /\ rp_hist' = Append(rp_hist, [id |-> rp_arg[t], before |-> Range(seen),
                                   ret |-> FALSE])
    /\ rp_pc' = [rp_pc EXCEPT ![t] = "done"]
    /\ lock' = 0
    /\ UNCHANGED <<msgVars, srvVars, netVars, rp_arg, rp_start>>

InitReplay ==
    /\ MsgIdle
    /\ seen \in Windows
    /\ lock = 0
    /\ rp_pc = [t \in Callers |-> "idle"]
    /\ rp_arg = [t \in Callers |-> "none"]
    /\ rp_ret = [t \in Callers |-> None]
    /\ rp_hist = <<>>
    /\ rp_start = Range(seen)
    /\ rp_evicted = {}
    /\ ServerOff
    /\ NetIdle

NextReplay == \E t \in Callers : RpCall(t) \/ RpAcquire(t) \/ RpCheck(t) \/ RpAppend(t)

SpecReplay == InitReplay /\ [][NextReplay]_vars

\* C4: sequential replay check.  Of two calls with nothing in between, the
\* first with an id that is not in the window: the first returns False; the
\* second returns True when it has the same id, and False when it has
\* another id that was not in the window either.
C4_ReplaySequential ==
    \A k \in 1..Len(rp_hist) :
        rp_hist[k].id \notin rp_hist[k].before
        => /\ rp_hist[k].ret = FALSE
           /\ k < Len(rp_hist)
                => IF rp_hist[k + 1].id = rp_hist[k].id
                   THEN rp_hist[k + 1].ret = TRUE
                   ELSE (rp_hist[k + 1].id \notin rp_hist[k].before
                            => rp_hist[k + 1].ret = FALSE)

C4_Witness ==
    /\ Len(rp_hist) = 3
    /\ Len(seen) = SeenMaxlen
    /\ Cardinality(rp_start) = SeenMaxlen
    /\ rp_hist[1].id \notin rp_start
    /\ rp_hist[2].id = rp_hist[1].id
    /\ rp_hist[1].ret = FALSE /\ rp_hist[2].ret = TRUE
    /\ rp_hist[3].id \notin rp_hist[2].before \cup {rp_hist[2].id}
    /\ rp_hist[3].ret = FALSE

RpCallsOf(id) == {t \in Callers : rp_pc[t] # "idle" /\ rp_arg[t] = id}
RpNovel(id) == {t \in RpCallsOf(id) : rp_pc[t] = "done" /\ rp_ret[t] = FALSE}

\* C5: concurrent replay check.  Among the threads that call check_duplicate
\* with the same id, an id that was not in the window and that the deque has
\* not dropped since, at most one gets False, and once they all returned
\* exactly one got False and the others True, under every interleaving.
C5_ReplayAtomic ==
    \A id \in ReplayIds :
        (id \notin rp_start /\ id \notin rp_evicted)
        => /\ Cardinality(RpNovel(id)) <= 1
           /\ (RpCallsOf(id) # {} /\ \A t \in RpCallsOf(id) : rp_pc[t] = "done")
                => /\ Cardinality(RpNovel(id)) = 1
                   /\ \A t \in RpCallsOf(id) \ RpNovel(id) : rp_ret[t] = TRUE

C5_Witness ==
    /\ \A t \in Callers : rp_pc[t] = "done" /\ rp_arg[t] = "id1"
    /\ "id1" \notin rp_start
    /\ Cardinality(RpNovel("id1")) = 1
    /\ Cardinality({t \in Callers : rp_ret[t] = TRUE}) = NumCallers - 1

\* thread t leaves check_duplicate in this step with the result ret
RpReturns(t, ret) == rp_pc[t] # "done" /\ rp_pc'[t] = "done" /\ rp_ret'[t] = ret

NoIdTwice(q) == \A i, j \in 1..Len(q) : i # j => q[i] # q[j]

\* C28: replay window bound and eviction.  The window never holds more than
\* maxlen ids and never an id twice.  A call that returns False has put its
\* id at the newest end; when the window was full, the oldest id, and only
\* that one, left the window and the others kept their order.  A call that
\* returns True leaves the window as it was.
C28_ReplayWindow ==
    /\ Len(seen) <= SeenMaxlen /\ NoIdTwice(seen)
    /\ [][/\ Len(seen') <= SeenMaxlen
          /\ NoIdTwice(seen')
          /\ \A t \in Callers :
                /\ RpReturns(t, TRUE) => seen' = seen
                /\ RpReturns(t, FALSE)
                     => /\ seen'[Len(seen')] = rp_arg[t]
                        /\ IF Len(seen) = SeenMaxlen
                           THEN /\ Range(seen) \ Range(seen') = {seen[1]}
                                /\ \A i \in 2..Len(seen) : seen'[i - 1] = seen[i]
                           ELSE \A i \in 1..Len(seen) : seen'[i] = seen[i]]_vars

\* a novel id was recorded while the window was full and the oldest id was
\* dropped; another call returned True
C28_Witness ==
    /\ Len(seen) = SeenMaxlen
    /\ rp_evicted # {}
    /\ \E k, j \in 1..Len(rp_hist) :
         /\ rp_hist[k].ret = FALSE
         /\ Cardinality(rp_hist[k].before) = SeenMaxlen
         /\ rp_hist[j].ret = TRUE

(***************************************************************************)
(* Claims about the message protocol, under SpecMsg.                       *)
(***************************************************************************)
MsgIntact == m_tamper = "none"
MsgRightKeys == m_rx.sender = m_in.sender /\ m_rx.me = m_in.recipient
MsgInWindow == m_rx.now - FRESHNESS_WINDOW <= T0 /\ T0 <= m_rx.now + FRESHNESS_WINDOW

\* C1: round trip.  A plaintext of at most 10,000 characters that went through
\* create_message, parse_message and verify_and_decrypt with the sender's
\* public key and the recipient's private key, the receiver's clock within
\* 300 s of the timestamp, comes back exactly.
C1_RoundTrip ==
    (m_pc = "done" /\ MsgIntact /\ MsgRightKeys /\ MsgInWindow
        /\ StrLen(m_in.plaintext) <= MAX_PLAINTEXT)
    => m_result = Ok(m_in.plaintext)

C1_Witness ==
    /\ m_pc = "done" /\ MsgIntact /\ MsgRightKeys /\ MsgInWindow
    /\ Len(m_in.plaintext) = 2
    /\ StrLen(m_in.plaintext) = MAX_PLAINTEXT
    /\ m_rx.now = T0 + 300
    /\ m_result = Ok(m_in.plaintext)

\* C2: tamper detection.  An envelope one of whose signed fields was given
\* another value after create_message is rejected by the receiver, whatever
\* keys and clock the receiver uses: no plaintext is returned for it.
C2_TamperRejected ==
    (m_pc = "done" /\ ~MsgIntact) => ~m_result.ok

C2_Witness ==
    /\ m_pc = "done"
    /\ m_tamper = "timestamp"
    /\ MsgRightKeys /\ m_rx.now = T0
    /\ m_result = Raise("ValueError", "Invalid signature")

\* C7: freshness boundary.  For an envelope whose signature verifies, the
\* call is rejected as future exactly when timestamp > now + 300, as too old
\* exactly when timestamp < now - 300, and passes the freshness check
\* otherwise (now - 300 <= timestamp <= now + 300).
C7_FreshnessBoundary ==
    (m_pc = "done" /\ MsgIntact /\ m_rx.sender = m_in.sender)
    => /\ (T0 > m_rx.now + 300
             <=> m_result = Raise("ValueError", "Message timestamp too far in future"))
       /\ (T0 < m_rx.now - 300
             <=> m_result = Raise("ValueError", "Message timestamp too old"))
       /\ (MsgInWindow /\ m_rx.me = m_in.recipient => m_result.ok)

C7_Witness ==
    /\ m_pc = "done" /\ MsgIntact /\ MsgRightKeys
    /\ T0 = m_rx.now - 300
    /\ m_result.ok

\* C8: size boundary.  create_message returns an envelope exactly for the
\* plaintexts of at most 10,000 characters; for a longer one it raises the
\* too-large error and produces no bytes.
C8_SizeBoundary ==
    (m_pc # "start")
    => /\ (StrLen(m_in.plaintext) <= 10000 <=> m_built.ok)
       /\ (StrLen(m_in.plaintext) >= 10001
             => /\ m_built = Raise("ValueError", "Message too large (max 10,000 chars)")
                /\ m_wire = None
                /\ m_pc = "failed")

C8_Witness ==
    /\ m_pc = "built"
    /\ StrLen(m_in.plaintext) = 10000
    /\ m_built.ok

(***************************************************************************)
(* keystore.py: the peer keys of the listener.  A file <fingerprint>.pem   *)
(* holds the public key with that fingerprint (add_peer_key).              *)
(***************************************************************************)
\* the fingerprints with a file under keys/peers of the listener
PeerFiles == {"alice"}

cache_never_has(cache, fingerprint) == FALSE
\* "fingerprint in _peer_key_cache"
cache_has(cache, fingerprint) == \E i \in 1..Len(cache) : cache[i].fp = fingerprint

\* "_peer_key_cache[fingerprint]"
cache_get(cache, fingerprint) == (CHOOSE e \in Range(cache) : e.fp = fingerprint).key

\* "_peer_key_cache[fingerprint]" as a statement: the value, or KeyError
dict_getitem(cache, fingerprint) ==
    IF cache_has(cache, fingerprint)
    THEN Ok(cache_get(cache, fingerprint))
    ELSE Raise("KeyError", fingerprint)

\* a cache that records every insert
cache_append(cache, fingerprint, public_key) ==
    Append(cache, [fp |-> fingerprint, key |-> public_key])
\* "_peer_key_cache[fingerprint] = public_key": a dict has one value per key
cache_put(cache, fingerprint, public_key) ==
    IF \E i \in 1..Len(cache) : cache[i].fp = fingerprint
    THEN [i \in 1..Len(cache) |->
            IF cache[i].fp = fingerprint THEN [fp |-> fingerprint, key |-> public_key]
            ELSE cache[i]]
    ELSE Append(cache, [fp |-> fingerprint, key |-> public_key])

\* crypto.generate_key_pair: public_key_bytes, the PEM encoding of the public
\* key of an owner; other bytes are no PEM public key
public_key_bytes(o) == [kind |-> "pem", of |-> o]
Notes == [kind |-> "text", of |-> "notes"]

\* "hashlib.sha256(key_data).hexdigest()"; of public_key_bytes it is the
\* fingerprint generate_key_pair returns
sha256_hexdigest(data) ==
    IF data.kind = "pem" THEN Fingerprint(data.of) ELSE "sha256 of " \o data.of

NotAKey == Raise("ValueError", "Could not deserialize key data")

\* crypto.load_public_key: serialization.load_pem_public_key
load_public_key(key_data) ==
    IF key_data.kind = "pem" THEN Ok(PublicKey(key_data.of)) ELSE NotAKey

\* the file <fingerprint>.pem add_peer_key writes for the key of an owner
key_file(o) == [name |-> Fingerprint(o), data |-> public_key_bytes(o)]

\* list_peers: the stems of PEERS_DIR/*.pem
list_peers(dir) == {f.name : f \in dir}

\* "peer_key_file.read_bytes()"
read_bytes(dir, name) == (CHOOSE f \in dir : f.name = name).data

\* "peer_key_file.write_bytes(public_key_data)": creates or replaces the file
write_bytes(dir, name, data) ==
    {f \in dir : f.name # name} \cup {[name |-> name, data |-> data]}

\* "peer_key_file.exists()" for PEERS_DIR / f"{fingerprint}.pem"
file_exists(peers_dir, fingerprint) == fingerprint \in peers_dir

PeerKeyNotFound == Raise("FileNotFoundError", "Peer key not found")

\* load_peer_key when no other thread is in it: the result and the cache
\* after the call
load_peer_key(peers_dir, cache, fingerprint) ==
    IF cache_has(cache, fingerprint)
    THEN [res |-> Ok(cache_get(cache, fingerprint)), cache |-> cache]
    ELSE IF ~file_exists(peers_dir, fingerprint)
    THEN [res |-> PeerKeyNotFound, cache |-> cache]
    ELSE [res |-> Ok(PublicKey(fingerprint)),
          cache |-> cache_put(cache, fingerprint, PublicKey(fingerprint))]

(***************************************************************************)
(* network.py: ChatServer.  The listener is "bob".  Connection handlers    *)
(* put the payloads they read on message_queue; NumWorkers processing      *)
(* workers (num_message_workers) take them off.  QueueMaxsize stands for   *)
(* maxsize=1000.                                                           *)
(***************************************************************************)
NumWorkers == 2
QueueMaxsize == 2
MaxArrivals == 2
\* the values of the listener's clock: the time of start() and 301 s later
Clock == {T0, T0 + 301}
Workers == 1..NumWorkers
Me == "bob"

\* what a holder of a private key can send: any map, signed with that key
signed_by(envelope, signer) ==
    packb(Put(envelope, "signature",
              MpBin(sign_message(packb(envelope), PrivateKey(signer)))))

Hello == <<[ch |-> "a", n |-> 1]>>
msg(plaintext, to, signer, claimed, id, ts) ==
    create_message(plaintext, PublicKey(to), PrivateKey(signer), Fingerprint(claimed),
                   [message_id |-> id, timestamp |-> ts, aes_key |-> 1, nonce |-> 1]).val

\* The payloads that reach the listener: envelopes of the known peer alice,
\* and what anybody can write on a connection.
Valid1 == msg(Hello, Me, "alice", "alice", "id1", T0)
\* from alice, 301 s ahead of the listener's first clock value
Ahead == msg(Hello, Me, "alice", "alice", "id3", T0 + 301)
\* names alice as its sender and reuses the id of Valid1, signed by eve
Forged == msg(Hello, Me, "eve", "alice", "id1", T0)
\* from eve, whose key the listener does not have
Unknown == msg(Hello, Me, "eve", "eve", "id2", T0)
\* from alice, encrypted to another key than the listener's
Misaddressed == msg(Hello, "eve", "alice", "alice", "id3", T0)
Junk == [junk |-> 1]
\* from alice, with a timestamp that is not a number
TextTimestamp ==
    signed_by(Put(unsigned_envelope("id3", T0, "alice",
                  encrypt_message(Hello, PublicKey(Me), 1, 1)),
                  "timestamp", MpStr("now")), "alice")
Payloads == <<Valid1, Ahead, Forged, Unknown, Misaddressed, Junk, TextTimestamp>>

\* self.message_queue.put(item, block=False): a full queue drops the item
queue_full(q) == Len(q) >= QueueMaxsize
queue_put_unbounded(q, item) == Append(q, item)
\* Queue.put(item, block=False): queue.Full is raised when the queue is full
queue_put(q, item) == IF queue_full(q) THEN q ELSE Append(q, item)

worker_catches_value_errors(exc) == exc = "ValueError"
\* "except Exception" at the end of the worker's loop body
worker_catches(exc) == TRUE

\* where a worker is after an exception left the loop body
after_exception(exc) == IF worker_catches(exc) THEN "get" ELSE "dead"

WorkerEnvelope(w) == w_env[w]
WorkerSender(w) == Get(WorkerEnvelope(w), "sender_fingerprint").str

\* the worker is done with its payload
Finish(w, pc, outcome) ==
    /\ w_pc' = [w_pc EXCEPT ![w] = pc]
    /\ w_done' = [w_done EXCEPT ![w] = outcome]
    /\ w_drops' = [w_drops EXCEPT ![w] = IF outcome = "delivered" THEN @ ELSE @ + 1]
    /\ processed' = processed + 1

\* message_queue.get, parse_message, load_peer_key
WorkerGet(w) ==
    /\ running
    /\ w_pc[w] = "get"
    /\ message_queue # <<>>
    /\ message_queue' = Tail(message_queue)
    /\ w_item' = [w_item EXCEPT ![w] = Head(message_queue)]
    /\ \E envelope \in {parse_message(Head(message_queue))} :
         IF ~envelope.ok
         THEN /\ Finish(w, after_exception(envelope.exc), envelope.msg)
              /\ w_env' = [w_env EXCEPT ![w] = None]
              /\ w_trace' = [w_trace EXCEPT ![w] = <<>>]
              /\ UNCHANGED <<key_cache, w_key>>
         ELSE \E loaded \in {load_peer_key(PeerFiles, key_cache,
                                  Get(envelope.val, "sender_fingerprint").str)} :
              /\ w_env' = [w_env EXCEPT ![w] = envelope.val]
              /\ IF ~loaded.res.ok
                 THEN /\ Finish(w, IF loaded.res.exc = "FileNotFoundError" THEN "get"
                                   ELSE after_exception(loaded.res.exc), "Unknown sender")
                      /\ w_trace' = [w_trace EXCEPT ![w] = <<"Decoded">>]
                      /\ UNCHANGED <<key_cache, w_key>>
                 ELSE /\ w_pc' = [w_pc EXCEPT ![w] = "dup"]
                      /\ key_cache' = loaded.cache
                      /\ w_key' = [w_key EXCEPT ![w] = loaded.res.val]
                      /\ w_trace' = [w_trace EXCEPT ![w] = <<"Decoded", "KeyLoaded">>]
                      /\ UNCHANGED <<w_done, w_drops, processed>>
    /\ UNCHANGED <<msgVars, rpVars, netVars, accVars, seen, stopVars, running, now, arrived, w_res,
                   w_vnow, delivered>>

\* message.check_duplicate(envelope['message_id'])
check_duplicate_step(w) ==
    /\ w_pc[w] = "dup"
    /\ \E r \in {check_duplicate(seen, Get(WorkerEnvelope(w), "message_id").str)} :
          /\ seen' = r.seen
          /\ w_trace' = [w_trace EXCEPT ![w] =
                            Append(@, IF r.ret THEN "Duplicate" ELSE "DuplicateChecked")]
          /\ IF r.ret
             THEN Finish(w, "get", "duplicate")
             ELSE /\ w_pc' = [w_pc EXCEPT ![w] = "verify"]
                  /\ UNCHANGED <<w_done, w_drops, processed>>
    /\ UNCHANGED <<msgVars, lock, rp_pc, rp_arg, rp_ret, rp_hist, rp_start, netVars, accVars,
                   stopVars, running, now, message_queue, arrived,
                   key_cache, w_item, w_env, w_key, w_res, w_vnow, delivered>>

WorkerDup(w) == check_duplicate_step(w) /\ UNCHANGED rp_evicted

\* message.verify_and_decrypt(envelope, sender_public_key, self.private_key)
WorkerVerify(w) ==
    /\ w_pc[w] = "verify"
    /\ \E v \in {verify_and_decrypt(WorkerEnvelope(w), w_key[w], PrivateKey(Me), now)} :
          /\ w_vnow' = [w_vnow EXCEPT ![w] = now]
          /\ w_trace' = [w_trace EXCEPT ![w] = @ \o v.passed]
          /\ IF v.res.ok
             THEN /\ w_res' = [w_res EXCEPT ![w] = v.res.val]
                  /\ w_pc' = [w_pc EXCEPT ![w] = "callback"]
                  /\ UNCHANGED <<w_done, w_drops, processed>>
             ELSE /\ Finish(w, IF v.res.exc = "ValueError" THEN "get"
                               ELSE after_exception(v.res.exc), v.res.msg)
                  /\ UNCHANGED w_res
    /\ UNCHANGED <<msgVars, rpVars, netVars, accVars, seen, stopVars, running, now, message_queue,
                   arrived, key_cache, w_item, w_env, w_key, delivered>>

\* self.message_callback(sender_fingerprint, plaintext, envelope['timestamp']);
\* the callback is the caller's: it returns or raises
WorkerCallback(w) ==
    /\ w_pc[w] = "callback"
    /\ delivered' = Append(delivered, [f |-> WorkerSender(w), p |-> w_res[w],
                                       t |-> Get(WorkerEnvelope(w), "timestamp")])
    /\ w_trace' = [w_trace EXCEPT ![w] = Append(@, "Callback")]
    /\ \E raised \in BOOLEAN :
         IF raised THEN Finish(w, after_exception("RuntimeError"), "callback raised")
         ELSE Finish(w, "get", "delivered")
    /\ UNCHANGED <<msgVars, rpVars, netVars, accVars, seen, stopVars, running, now, message_queue,
                   arrived, key_cache, w_item, w_env, w_key, w_res, w_vnow>>

\* "except Exception" in the body of the accept loop
accept_catches(exc) == TRUE

\* _accept_loop, one iteration for a connection of another peer: accept() and
\* executor.submit(self._handle_client, conn, addr), either of which may raise
Accept ==
    /\ running
    /\ a_pc = "accept"
    /\ arrived < MaxArrivals
    /\ arrived' = arrived + 1
    /\ \E raised \in BOOLEAN :
         IF raised
         THEN /\ a_pc' = IF accept_catches("OSError") THEN "accept" ELSE "exited"
              /\ UNCHANGED handlers
         ELSE /\ handlers' = handlers + 1
              /\ UNCHANGED a_pc
    /\ UNCHANGED <<msgVars, rpVars, netVars, seen, stopVars, running, now, message_queue, traffic,
                   key_cache, wVars, delivered>>

\* _handle_client of such a connection: it read a complete frame, puts the
\* payload (dropped when the queue is full) and closes the connection
HandlerPut ==
    /\ handlers > 0
    /\ handlers' = handlers - 1
    /\ \E i \in traffic : message_queue' = queue_put(message_queue, Payloads[i])
    /\ UNCHANGED <<msgVars, rpVars, netVars, seen, stopVars, running, now, a_pc, arrived, traffic,
                   key_cache, wVars, delivered>>

\* time passes at the listener
Tick ==
    /\ now + 301 \in Clock
    /\ now' = now + 301
    /\ UNCHANGED <<msgVars, rpVars, netVars, accVars, seen, stopVars, running, message_queue,
                   arrived, key_cache, wVars, delivered>>

\* the listener after start(): running, the workers waiting on the empty queue
ServerStarted ==
    /\ st_pc = "idle" /\ server_socket = "listening" /\ st_late = {}
    /\ running = TRUE
    /\ now = T0
    /\ message_queue = <<>>
    /\ a_pc = "accept"
    /\ arrived = 0
    /\ handlers = 0
    /\ key_cache = <<>>
    /\ w_pc = [w \in Workers |-> "get"]
    /\ w_item = [w \in Workers |-> None]
    /\ w_env = [w \in Workers |-> None]
    /\ w_key = [w \in Workers |-> None]
    /\ w_res = [w \in Workers |-> None]
    /\ w_vnow = [w \in Workers |-> 0]
    /\ w_trace = [w \in Workers |-> <<>>]
    /\ w_done = [w \in Workers |-> "none"]
    /\ w_drops = [w \in Workers |-> 0]
    /\ processed = 0
    /\ delivered = <<>>

InitServer ==
    /\ MsgIdle
    /\ ReplayIdle
    /\ NetIdle
    /\ seen = <<>>
    /\ traffic = 1..Len(Payloads)
    /\ ServerStarted

WorkerStep(w) == WorkerGet(w) \/ WorkerDup(w) \/ WorkerVerify(w) \/ WorkerCallback(w)

NextServer == Accept \/ HandlerPut \/ Tick \/ \E w \in Workers : WorkerStep(w)

\* the workers are threads of their own: one that can step does step
SpecServer ==
    InitServer /\ [][NextServer]_vars /\ \A w \in Workers : WF_vars(WorkerStep(w))

(***************************************************************************)
(* The listener receiving copies of one envelope of alice among other      *)
(* envelopes of alice, all within the freshness window (the clock stands   *)
(* still).  rp_evicted holds the ids the replay window has dropped.        *)
(***************************************************************************)
MaxCopies == 4
\* other envelopes of alice, made one and two seconds later
Filler2 == msg(Hello, Me, "alice", "alice", "id2", T0 + 1)
Filler3 == msg(Hello, Me, "alice", "alice", "id3", T0 + 2)
CopyPayloads == <<Valid1, Filler2, Filler3>>

\* a connection is accepted and its handler puts the payload it read: the
\* first envelope is sent any number of times, each other one once
CopyArrives ==
    /\ running
    /\ a_pc = "accept"
    /\ arrived < MaxCopies
    /\ arrived' = arrived + 1
    /\ \E i \in traffic :
         /\ message_queue' = queue_put(message_queue, CopyPayloads[i])
         /\ traffic' = IF i = 1 THEN traffic ELSE traffic \ {i}
    /\ UNCHANGED <<msgVars, rpVars, netVars, seen, stopVars, running, now, a_pc, handlers,
                   key_cache, wVars, delivered>>

\* check_duplicate in the worker, with the ids the deque dropped kept
WorkerDupTraced(w) ==
    /\ check_duplicate_step(w)
    /\ rp_evicted' = rp_evicted \cup (Range(seen) \ Range(seen'))

InitCopies ==
    /\ MsgIdle
    /\ ReplayIdle
    /\ NetIdle
    /\ seen = <<>>
    /\ traffic = 1..Len(CopyPayloads)
    /\ ServerStarted

NextCopies ==
    \/ CopyArrives
    \/ \E w \in Workers :
         WorkerGet(w) \/ WorkerDupTraced(w) \/ WorkerVerify(w) \/ WorkerCallback(w)

SpecCopies == InitCopies /\ [][NextCopies]_vars

(***************************************************************************)
(* network.py: send_message and the connection pool in the process of      *)
(* "alice", over TCP to the listener above.  A connection is made by       *)
(* socket() in send_message; the bytes written on it are length prefixes   *)
(* and message_data.  The listener modelled is the one at host "bob".      *)
(***************************************************************************)
CONNECTION_TIMEOUT == 30
MAX_CONNECTIONS_PER_PEER == 3

NumSenders == 3
Senders == 1..NumSenders

\* the fingerprints with a file under keys/peers of the sender
SenderPeerFiles == {"bob", "carol"}
\* the (host, port) of the peers: peer_key = f"{host}:{port}"
Hosts == {"bob", "carol"}

\* conn.getpeername() succeeds on a connected socket
probe(sock) == sock.client = "open"

\* "if time.time() - timestamp < self.connection_timeout"
not_too_old_at_limit(time, timestamp) == time - timestamp <= CONNECTION_TIMEOUT
not_too_old(time, timestamp) == time - timestamp < CONNECTION_TIMEOUT

\* ConnectionPool.get_connection under the lock of the bucket: entries are
\* popped newest first.  One that is not too old and whose getpeername()
\* succeeds is returned; one that is not too old and whose getpeername()
\* fails is closed; one that is too old is dropped as it is.  The socket
\* returned (0 for None), the bucket left, and the sockets closed.
\* hands out the newest entry's socket and leaves the entry in the bucket
peek_connection(entries, time, socks) ==
    IF entries = <<>>
    THEN [sock |-> 0, pool |-> <<>>, closed |-> {}]
    ELSE [sock |-> entries[Len(entries)].sock, pool |-> entries, closed |-> {}]

RECURSIVE get_connection(_, _, _)
get_connection(entries, time, socks) ==
    IF entries = <<>>
    THEN [sock |-> 0, pool |-> <<>>, closed |-> {}]
    ELSE LET last == entries[Len(entries)]
             rest == SubSeq(entries, 1, Len(entries) - 1)
         IN IF not_too_old(time, last.timestamp)
            THEN IF probe(socks[last.sock])
                 THEN [sock |-> last.sock, pool |-> rest, closed |-> {}]
                 ELSE LET further == get_connection(rest, time, socks)
                      IN [further EXCEPT !.closed = @ \cup {last.sock}]
            ELSE get_connection(rest, time, socks)

under_capacity_or_at(entries) == Len(entries) <= MAX_CONNECTIONS_PER_PEER
\* "if len(self.pools[peer_key]) < self.max_connections_per_peer"
under_capacity(entries) == Len(entries) < MAX_CONNECTIONS_PER_PEER

\* a pool that makes room for the socket returned by closing its oldest entry
return_connection_evict_oldest(entries, sock, time) ==
    IF under_capacity(entries)
    THEN [pool |-> Append(entries, [sock |-> sock, timestamp |-> time]), closed |-> {}]
    ELSE [pool |-> Append(Tail(entries), [sock |-> sock, timestamp |-> time]),
          closed |-> {Head(entries).sock}]
\* ConnectionPool.return_connection under the lock of the bucket: the bucket
\* after the call, and the sockets closed instead of kept
return_connection(entries, sock, time) ==
    IF under_capacity(entries)
    THEN [pool |-> Append(entries, [sock |-> sock, timestamp |-> time]), closed |-> {}]
    ELSE [pool |-> entries, closed |-> {sock}]

\* conn.close() on each socket of a set
close_all_of(socks, closed) ==
    [c \in 1..Len(socks) |->
        IF c \in closed THEN [socks[c] EXCEPT !.client = "closed"] ELSE socks[c]]

Salut == <<[ch |-> "e_acute", n |-> 2]>>
AtLimit == <<[ch |-> "a", n |-> MAX_PLAINTEXT]>>
OverLimit == <<[ch |-> "a", n |-> MAX_PLAINTEXT], [ch |-> "e_acute", n |-> 1]>>
SentPlaintexts == {Salut, AtLimit, OverLimit}
\* the sender's clock at the call, against the listener's clock T0
SenderClocks == {T0 - 301, T0 - 300, T0 + 1, T0 + 301}
\* the uuid4 of the k-th envelope the sender creates
SentIds == <<"id4", "id5", "id6", "id7", "id8">>

\* struct.pack('!I', len(message_data)): four bytes, not a msgpack map
LengthPrefix == [uint32 |-> "len(message_data)"]

frame_read_prefix(wire) == wire[1]
\* message_data: the message_length bytes after the length prefix
frame_read(wire) == wire[2]

\* the exceptions of the socket module: socket.timeout and the other
\* subclasses of socket.error (OSError), with their str()
SocketTimeout == [type |-> "socket.timeout", text |-> "timed out"]
Refused == [type |-> "ConnectionRefusedError", text |-> "[Errno 111] Connection refused"]
Unreachable == [type |-> "OSError", text |-> "[Errno 113] No route to host"]
BrokenPipe == [type |-> "BrokenPipeError", text |-> "[Errno 32] Broken pipe"]
\* what sock.connect can raise, and what sock.sendall can raise
ConnectErrors == {SocketTimeout, Refused, Unreachable}
WriteErrors == {SocketTimeout, BrokenPipe}

CouldNotConnect == Raise("ConnectionError", "Could not connect")
FailedToSend == Raise("ConnectionError", "Failed to send message")

\* the handlers of the outer try of send_message: "except socket.timeout",
\* then "except socket.error" with the test "Connection refused" in str(e)
connection_error(exc) ==
    IF exc.type = "socket.timeout"
    THEN CouldNotConnect
    ELSE IF exc = Refused THEN CouldNotConnect ELSE FailedToSend

\* somebody listens at the host: the listener above at "bob"
Listening(host) == host = Me => running

\* send_message up to the socket: load_peer_key, create_message, get_connection
SendCall(t) ==
    /\ s_pc[t] = "call"
    /\ \E loaded \in {load_peer_key(SenderPeerFiles, <<>>, s_in[t].to)} :
         IF ~loaded.res.ok
         THEN /\ s_ret' = [s_ret EXCEPT ![t] = Raise("ValueError", "Peer not found")]
              /\ s_pc' = [s_pc EXCEPT ![t] = "done"]
              /\ UNCHANGED <<s_msg, s_sock, pool, conn>>
         ELSE \E created \in {create_message(s_in[t].plaintext, loaded.res.val,
                                             PrivateKey("alice"), Fingerprint("alice"),
                                             [message_id |-> s_in[t].message_id,
                                              timestamp |-> s_in[t].now,
                                              aes_key |-> 1, nonce |-> 1])} :
                IF ~created.ok
                THEN /\ s_ret' = [s_ret EXCEPT ![t] = created]
                     /\ s_pc' = [s_pc EXCEPT ![t] = "done"]
                     /\ UNCHANGED <<s_msg, s_sock, pool, conn>>
                ELSE /\ s_msg' = [s_msg EXCEPT ![t] = created.val]
                     /\ UNCHANGED s_ret
                     /\ IF s_in[t].use_pooling
                        THEN \E got \in {get_connection(pool[s_in[t].host],
                                                        s_in[t].now, conn)} :
                               /\ pool' = [pool EXCEPT ![s_in[t].host] = got.pool]
                               /\ conn' = close_all_of(conn, got.closed)
                               /\ s_sock' = [s_sock EXCEPT ![t] = got.sock]
                               /\ s_pc' = [s_pc EXCEPT ![t] =
                                              IF got.sock = 0 THEN "dial" ELSE "send_len"]
                        ELSE /\ s_pc' = [s_pc EXCEPT ![t] = "dial"]
                             /\ UNCHANGED <<s_sock, pool, conn>>
    /\ UNCHANGED <<msgVars, rpVars, srvVars, seen, s_in, s_calls, h_pc, h_data, h_done,
                   threadVars>>

\* socket(), settimeout(10), connect(): outside the inner try, so a failing
\* connect goes to the outer handlers with the new socket as it is
SendDial(t) ==
    /\ s_pc[t] = "dial"
    /\ s_sock' = [s_sock EXCEPT ![t] = Len(conn) + 1]
    /\ h_pc' = Append(h_pc, "none")
    /\ h_data' = Append(h_data, None)
    /\ h_done' = Append(h_done, "none")
    /\ \/ /\ Listening(s_in[t].host)
          /\ conn' = Append(conn, [host |-> s_in[t].host, client |-> "open",
                                   server |-> "backlog", wire |-> <<>>])
          /\ s_pc' = [s_pc EXCEPT ![t] = "send_len"]
          /\ UNCHANGED s_ret
       \/ \E exc \in ConnectErrors :
            /\ conn' = Append(conn, [host |-> s_in[t].host, client |-> "unconnected",
                                     server |-> "none", wire |-> <<>>])
            /\ s_ret' = [s_ret EXCEPT ![t] = connection_error(exc)]
            /\ s_pc' = [s_pc EXCEPT ![t] = "done"]
    /\ UNCHANGED <<msgVars, rpVars, srvVars, seen, s_in, s_msg, s_calls, pool, threadVars>>

\* sock.sendall(length_prefix), sock.sendall(message_data) in the inner try;
\* a failing write closes the socket and re-raises to the outer handlers.
\* A write on a connection the peer has reset fails.
SendWrite(t) ==
    /\ s_pc[t] \in {"send_len", "send_data"}
    /\ \/ /\ conn[s_sock[t]].client = "open"
          /\ conn' = [conn EXCEPT ![s_sock[t]].wire =
                         Append(@, IF s_pc[t] = "send_len" THEN LengthPrefix ELSE s_msg[t])]
          /\ s_pc' = [s_pc EXCEPT ![t] = IF s_pc[t] = "send_len" THEN "send_data"
                                         ELSE "return"]
          /\ UNCHANGED s_ret
       \/ \E exc \in WriteErrors :
            /\ conn' = [conn EXCEPT ![s_sock[t]].client = "closed"]
            /\ s_ret' = [s_ret EXCEPT ![t] = connection_error(exc)]
            /\ s_pc' = [s_pc EXCEPT ![t] = "done"]
    /\ UNCHANGED <<msgVars, rpVars, srvVars, seen, s_in, s_msg, s_sock, s_calls, pool,
                   h_pc, h_data, h_done, threadVars>>

\* _connection_pool.return_connection(host, port, sock) or sock.close();
\* return True
SendReturn(t) ==
    /\ s_pc[t] = "return"
    /\ IF s_in[t].use_pooling
       THEN \E back \in {return_connection(pool[s_in[t].host], s_sock[t], s_in[t].now)} :
              /\ pool' = [pool EXCEPT ![s_in[t].host] = back.pool]
              /\ conn' = close_all_of(conn, back.closed)
       ELSE /\ conn' = close_all_of(conn, {s_sock[t]})
            /\ UNCHANGED pool
    /\ s_ret' = [s_ret EXCEPT ![t] = Ok(TRUE)]
    /\ s_pc' = [s_pc EXCEPT ![t] = "done"]
    /\ UNCHANGED <<msgVars, rpVars, srvVars, seen, s_in, s_msg, s_sock, s_calls,
                   h_pc, h_data, h_done, threadVars>>

SendStep(t) == SendCall(t) \/ SendDial(t) \/ SendWrite(t) \/ SendReturn(t)

\* _accept_loop, the iteration that accepts a connection to the listener and
\* submits its handler
AcceptConn(c) ==
    /\ running
    /\ a_pc = "accept"
    /\ conn[c].host = Me
    /\ conn[c].server = "backlog"
    /\ conn' = [conn EXCEPT ![c].server = "accepted"]
    /\ h_pc' = [h_pc EXCEPT ![c] = "recv_len"]
    /\ UNCHANGED <<msgVars, rpVars, srvVars, seen, sendVars, pool, h_data, h_done,
                   threadVars>>

\* _recv_exact(conn, 4), _recv_exact(conn, message_length): blocks until the
\* bytes are there; None when the peer closed before
HandlerRecv(c) ==
    /\ h_pc[c] \in {"recv_len", "recv_data"}
    /\ LET need == IF h_pc[c] = "recv_len" THEN 1 ELSE 2
       IN /\ Len(conn[c].wire) >= need \/ conn[c].client = "closed"
          /\ IF Len(conn[c].wire) >= need
             THEN /\ h_pc' = [h_pc EXCEPT ![c] = IF h_pc[c] = "recv_len" THEN "recv_data"
                                                 ELSE "put"]
                  /\ h_data' = IF h_pc[c] = "recv_len" THEN h_data
                               ELSE [h_data EXCEPT ![c] = frame_read(conn[c].wire)]
                  /\ UNCHANGED h_done
             ELSE /\ h_pc' = [h_pc EXCEPT ![c] = "close"]
                  /\ h_done' = [h_done EXCEPT ![c] = "eof"]
                  /\ UNCHANGED h_data
    /\ UNCHANGED <<msgVars, rpVars, srvVars, seen, sendVars, pool, conn, threadVars>>

\* self.message_queue.put((message_data, addr), block=False)
HandlerEnqueue(c) ==
    /\ h_pc[c] = "put"
    /\ message_queue' = queue_put(message_queue, h_data[c])
    /\ h_done' = [h_done EXCEPT ![c] = IF queue_full(message_queue) THEN "shed"
                                       ELSE "enqueued"]
    /\ h_pc' = [h_pc EXCEPT ![c] = "close"]
    /\ UNCHANGED <<msgVars, rpVars, seen, stopVars, running, now, accVars, arrived, key_cache,
                   wVars, delivered, sendVars, pool, conn, h_data, threadVars>>

\* finally: conn.close()
HandlerClose(c) ==
    /\ h_pc[c] = "close"
    /\ conn' = [conn EXCEPT ![c].server = "closed"]
    /\ h_pc' = [h_pc EXCEPT ![c] = "done"]
    /\ UNCHANGED <<msgVars, rpVars, srvVars, seen, sendVars, pool, h_data, h_done,
                   threadVars>>

HandlerStep(c) == HandlerRecv(c) \/ HandlerEnqueue(c) \/ HandlerClose(c)

Connections == 1..Len(conn)
AcceptSome == \E c \in Connections : AcceptConn(c)
HandlerSome == \E c \in Connections : HandlerStep(c)

\* the arguments of a call of send_message by the sender, and its clock
SendArgs(tos, hosts, plaintexts, clocks, poolings, ids) ==
    [to : tos, host : hosts, plaintext : plaintexts, now : clocks,
     use_pooling : poolings, message_id : ids]

\* no call of send_message was made, no socket was created
NoConnections ==
    /\ pool = [h \in Hosts |-> <<>>]
    /\ conn = <<>>
    /\ h_pc = <<>> /\ h_data = <<>> /\ h_done = <<>>

\* both know the other's public key, the listener is running, the sender is
\* about to call send_message; other peers send nothing or junk
InitE2E ==
    /\ MsgIdle
    /\ ReplayIdle
    /\ ThreadsIdle
    /\ seen = <<>>
    /\ ServerStarted
    /\ traffic \in {{}, {i \in 1..Len(Payloads) : Payloads[i] = Junk}}
    /\ \E args \in SendArgs({"bob"}, {"bob"}, SentPlaintexts, SenderClocks, {TRUE},
                            {SentIds[1]}) :
         s_in = [t \in Senders |-> IF t = 1 THEN args ELSE None]
    /\ s_pc = [t \in Senders |-> IF t = 1 THEN "call" ELSE "off"]
    /\ s_msg = [t \in Senders |-> None]
    /\ s_ret = [t \in Senders |-> None]
    /\ s_sock = [t \in Senders |-> 0]
    /\ s_calls = 1
    /\ NoConnections

NextE2E ==
    \/ SendStep(1)
    \/ AcceptSome
    \/ HandlerSome
    \/ Accept
    \/ HandlerPut
    \/ Tick
    \/ \E w \in Workers : WorkerStep(w)

\* the listener's threads are scheduled fairly: the accept loop, the handlers
\* of the connections and the workers
SpecE2E ==
    /\ InitE2E
    /\ [][NextE2E]_vars
    /\ WF_vars(AcceptSome)
    /\ WF_vars(HandlerSome)
    /\ \A w \in Workers : WF_vars(WorkerStep(w))

(***************************************************************************)
(* network.py: a sender calling send_message several times, one call after *)
(* the other, while the listener at "bob" accepts and handles connections. *)
(***************************************************************************)
MaxSends == 2

\* what a call is made with: the recipient's fingerprint and address, the
\* plaintext, use_pooling, and the seconds gone by since the call before.
\* "mallory" has no file under keys/peers; nobody is modelled behind "carol".
SendScenarios ==
    [to : {"bob"}, host : {"bob"}, plaintext : {Salut}, use_pooling : BOOLEAN,
     later : {0, CONNECTION_TIMEOUT}]
    \cup {[to |-> "carol", host |-> "carol", plaintext |-> Salut, use_pooling |-> TRUE,
           later |-> 0],
          [to |-> "mallory", host |-> "bob", plaintext |-> Salut, use_pooling |-> TRUE,
           later |-> 0],
          [to |-> "bob", host |-> "bob", plaintext |-> OverLimit, use_pooling |-> TRUE,
           later |-> 0]}

\* the arguments and the clock of the k-th call, made at time + later
SendArgsOf(sc, time, k) ==
    [to |-> sc.to, host |-> sc.host, plaintext |-> sc.plaintext,
     now |-> time + sc.later, use_pooling |-> sc.use_pooling, message_id |-> SentIds[k]]

\* the caller calls send_message again after the call before has returned
SendAgain(t) ==
    /\ s_pc[t] = "done"
    /\ s_calls < MaxSends
    /\ s_calls' = s_calls + 1
    /\ \E sc \in SendScenarios :
         s_in' = [s_in EXCEPT ![t] = SendArgsOf(sc, s_in[t].now, s_calls + 1)]
    /\ s_pc' = [s_pc EXCEPT ![t] = "call"]
    /\ s_msg' = [s_msg EXCEPT ![t] = None]
    /\ s_ret' = [s_ret EXCEPT ![t] = None]
    /\ s_sock' = [s_sock EXCEPT ![t] = 0]
    /\ UNCHANGED <<msgVars, rpVars, srvVars, seen, connVars, threadVars>>

\* the listener's end of the connection is closed and the sender's end learns
\* of it (a RST arrives): getpeername() and writes on the socket fail from then
PeerReset(c) ==
    /\ conn[c].client = "open"
    /\ conn[c].server = "closed"
    /\ conn' = [conn EXCEPT ![c].client = "reset"]
    /\ UNCHANGED <<msgVars, rpVars, srvVars, seen, sendVars, pool, h_pc, h_data, h_done,
                   threadVars>>

ResetSome == \E c \in Connections : PeerReset(c)

InitSend ==
    /\ MsgIdle
    /\ ReplayIdle
    /\ ThreadsIdle
    /\ seen = <<>>
    /\ ServerStarted
    /\ traffic = {}
    /\ \E sc \in SendScenarios :
         s_in = [t \in Senders |-> IF t = 1 THEN SendArgsOf(sc, T0, 1) ELSE None]
    /\ s_pc = [t \in Senders |-> IF t = 1 THEN "call" ELSE "off"]
    /\ s_msg = [t \in Senders |-> None]
    /\ s_ret = [t \in Senders |-> None]
    /\ s_sock = [t \in Senders |-> 0]
    /\ s_calls = 1
    /\ NoConnections

NextSend ==
    \/ SendStep(1)
    \/ SendAgain(1)
    \/ AcceptSome
    \/ HandlerSome
    \/ ResetSome

SpecSend == InitSend /\ [][NextSend]_vars

(***************************************************************************)
(* network.py: ConnectionPool, called by several threads.  A thread that   *)
(* holds no socket takes one from the pool or opens a new one, as          *)
(* send_message does; a thread that holds one returns it.  The body of     *)
(* get_connection and return_connection runs under the lock of the bucket. *)
(***************************************************************************)
NumPoolThreads == 2
MaxSockets == 4
PoolThreads == 1..NumPoolThreads

\* one lock for the whole pool: a thread enters only when no lock is held
global_lock_available(locks, peer_key) == \A k \in DOMAIN locks : locks[k] = 0

\* "with self.pool_locks[peer_key]": a thread enters only when no thread holds
\* the lock of that bucket
pool_lock_available(locks, peer_key) == locks[peer_key] = 0

\* a thread without socket opens a connection to a peer
PoolOpen(t) ==
    /\ p_pc[t] = "idle"
    /\ p_sock[t] = 0
    /\ Len(conn) < MaxSockets
    /\ \E h \in Hosts :
         conn' = Append(conn, [host |-> h, client |-> "open", server |-> "backlog",
                               wire |-> <<>>])
    /\ p_sock' = [p_sock EXCEPT ![t] = Len(conn) + 1]
    /\ h_pc' = Append(h_pc, "none")
    /\ h_data' = Append(h_data, None)
    /\ h_done' = Append(h_done, "none")
    /\ UNCHANGED <<msgVars, rpVars, srvVars, seen, sendVars, batchVars, keyVars, pool, pool_locks, p_pc, p_key,
                   p_now, p_before>>

\* a thread calls get_connection(host, port), or return_connection(host, port,
\* conn) with the socket it holds and the address the socket is connected to,
\* and enters the with block: it gets the lock of the bucket when it is free
PoolCallOn(t, h) ==
    /\ p_pc[t] = "idle"
    /\ pool_lock_available(pool_locks, h)
    /\ pool_locks' = [pool_locks EXCEPT ![h] = t]
    /\ p_key' = [p_key EXCEPT ![t] = h]
    /\ p_pc' = [p_pc EXCEPT ![t] = IF p_sock[t] = 0 THEN "in get" ELSE "in return"]
    /\ UNCHANGED <<msgVars, rpVars, srvVars, seen, sendVars, batchVars, keyVars, connVars, p_sock, p_now, p_before>>

\* the buckets a thread can call the pool for
PoolKeys(t) == IF p_sock[t] = 0 THEN Hosts ELSE {conn[p_sock[t]].host}

PoolCall(t) == \E h \in PoolKeys(t) : PoolCallOn(t, h)

\* the sockets get_connection takes out of the bucket and neither returns
\* nor closes: those of the entries that are too old
dropped_open(entries, time, socks) ==
    LET got == get_connection(entries, time, socks)
    IN {entries[i].sock : i \in 1..Len(entries)}
         \ ({got.pool[i].sock : i \in 1..Len(got.pool)} \cup {got.sock} \cup got.closed)

\* the body of get_connection, and leaving the with block.  No statement
\* closes the socket of an entry that is too old; "finalized" are those of
\* them the interpreter closes when it collects the unreferenced socket
\* object, which it may do before the call returns or later.
get_connection_step(t, finalized) ==
    /\ p_pc[t] = "in get"
    /\ \E got \in {get_connection(pool[p_key[t]], p_now, conn)} :
         /\ pool' = [pool EXCEPT ![p_key[t]] = got.pool]
         /\ conn' = close_all_of(conn, got.closed \cup finalized)
         /\ p_sock' = [p_sock EXCEPT ![t] = got.sock]
    /\ pool_locks' = [pool_locks EXCEPT ![p_key[t]] = 0]
    /\ p_pc' = [p_pc EXCEPT ![t] = "idle"]
    /\ p_key' = [p_key EXCEPT ![t] = "none"]
    /\ UNCHANGED <<msgVars, rpVars, srvVars, seen, sendVars, batchVars, keyVars, h_pc, h_data, h_done, p_now>>

get_connection_body(t) == get_connection_step(t, {})

PoolGet(t) == get_connection_body(t) /\ UNCHANGED p_before

\* the body of return_connection, and leaving the with block
PoolReturn(t) ==
    /\ p_pc[t] = "in return"
    /\ \E back \in {return_connection(pool[p_key[t]], p_sock[t], p_now)} :
         /\ pool' = [pool EXCEPT ![p_key[t]] = back.pool]
         /\ conn' = close_all_of(conn, back.closed)
    /\ p_sock' = [p_sock EXCEPT ![t] = 0]
    /\ pool_locks' = [pool_locks EXCEPT ![p_key[t]] = 0]
    /\ p_pc' = [p_pc EXCEPT ![t] = "idle"]
    /\ p_key' = [p_key EXCEPT ![t] = "none"]
    /\ UNCHANGED <<msgVars, rpVars, srvVars, seen, sendVars, batchVars, keyVars, h_pc, h_data, h_done, p_now, p_before>>

\* connection_timeout seconds pass in the process of the sender
PoolTick ==
    /\ p_now = T0
    /\ p_now' = p_now + CONNECTION_TIMEOUT
    /\ UNCHANGED <<msgVars, rpVars, srvVars, seen, sendVars, batchVars, keyVars, connVars, pool_locks, p_pc,
                   p_key, p_sock, p_before>>

InitPool ==
    /\ MsgIdle
    /\ ReplayIdle
    /\ seen = <<>>
    /\ ServerOff
    /\ s_pc = <<>> /\ s_in = <<>> /\ s_msg = <<>> /\ s_ret = <<>> /\ s_sock = <<>>
    /\ s_calls = 0
    /\ NoConnections
    /\ pool_locks = [h \in Hosts |-> 0]
    /\ p_pc = [t \in PoolThreads |-> "idle"]
    /\ p_key = [t \in PoolThreads |-> "none"]
    /\ p_sock = [t \in PoolThreads |-> 0]
    /\ p_now = T0
    /\ p_before = <<>>
    /\ BatchIdle
    /\ KeysIdle

NextPool ==
    \/ \E t \in PoolThreads :
         PoolOpen(t) \/ PoolCall(t) \/ PoolGet(t) \/ PoolReturn(t)
    \/ PoolTick

SpecPool == InitPool /\ [][NextPool]_vars

(***************************************************************************)
(* network.py: get_connection on buckets as earlier calls of               *)
(* return_connection can have left them: up to three sockets to "bob",     *)
(* returned at the times of AcquireTimes, the oldest first.  The peer      *)
(* resets connections that lie in the bucket.                              *)
(***************************************************************************)
\* return times: connection_timeout ago, a second less than that, now
AcquireTimes == {T0 - CONNECTION_TIMEOUT, T0 - CONNECTION_TIMEOUT + 1, T0}

AcquireBuckets ==
    UNION {{b \in [1..n -> [sock : 1..n, timestamp : AcquireTimes]] :
              /\ \A i \in 1..n : b[i].sock = i
              /\ \A i \in 1..(n - 1) : b[i].timestamp <= b[i + 1].timestamp}
           : n \in 0..MAX_CONNECTIONS_PER_PEER}

\* get_connection, with the bucket it found kept in p_before
PoolGetTraced(t) ==
    /\ p_pc[t] = "in get"
    /\ \E finalized \in SUBSET dropped_open(pool[p_key[t]], p_now, conn) :
         get_connection_step(t, finalized)
    /\ p_before' = pool[p_key[t]]

\* the peer resets a connection that lies in a bucket: the socket is dead
PoolPeerReset(c) ==
    /\ conn[c].client = "open"
    /\ \E i \in 1..Len(pool[conn[c].host]) : pool[conn[c].host][i].sock = c
    /\ conn' = [conn EXCEPT ![c].client = "reset"]
    /\ UNCHANGED <<msgVars, rpVars, srvVars, seen, sendVars, batchVars, keyVars, pool,
                   h_pc, h_data, h_done, poolVars>>

InitAcquire ==
    /\ MsgIdle
    /\ ReplayIdle
    /\ seen = <<>>
    /\ ServerOff
    /\ s_pc = <<>> /\ s_in = <<>> /\ s_msg = <<>> /\ s_ret = <<>> /\ s_sock = <<>>
    /\ s_calls = 0
    /\ conn = [c \in 1..MAX_CONNECTIONS_PER_PEER |->
                 [host |-> "bob", client |-> "open", server |-> "accepted", wire |-> <<>>]]
    /\ h_pc = [c \in 1..MAX_CONNECTIONS_PER_PEER |-> "none"]
    /\ h_data = [c \in 1..MAX_CONNECTIONS_PER_PEER |-> None]
    /\ h_done = [c \in 1..MAX_CONNECTIONS_PER_PEER |-> "none"]
    /\ \E bucket \in AcquireBuckets :
         pool = [h \in Hosts |-> IF h = "bob" THEN bucket ELSE <<>>]
    /\ pool_locks = [h \in Hosts |-> 0]
    /\ p_pc = [t \in PoolThreads |-> "idle"]
    /\ p_key = [t \in PoolThreads |-> "none"]
    /\ p_sock = [t \in PoolThreads |-> 0]
    /\ p_now = T0
    /\ p_before = <<>>
    /\ BatchIdle
    /\ KeysIdle

NextAcquire ==
    \/ \E t \in PoolThreads : PoolCall(t) \/ PoolGetTraced(t) \/ PoolReturn(t)
    \/ \E c \in Connections : PoolPeerReset(c)

SpecAcquire == InitAcquire /\ [][NextAcquire]_vars

(***************************************************************************)
(* network.py: send_batch_messages.  The executor runs one send_message    *)
(* per recipient, each in a thread of its own (max_workers is the number   *)
(* of recipients, up to 10); the caller collects the futures in the order  *)
(* of the list with future.result(timeout=15) and leaves the with block    *)
(* when every send has ended.                                              *)
(***************************************************************************)
\* the recipients a list can name: "mallory" has no file under keys/peers
BatchPeers ==
    {[to |-> "bob", host |-> "bob"], [to |-> "carol", host |-> "carol"],
     [to |-> "mallory", host |-> "bob"]}

\* the recipient lists: none to NumSenders recipients with distinct
\* fingerprints
RecipientLists ==
    {l \in UNION {[1..n -> BatchPeers] : n \in 0..NumSenders} :
        \A i, j \in 1..Len(l) : i # j => l[i].to # l[j].to}

collect_catches_connection_errors(exc) == exc = "ConnectionError"
\* "except Exception as e" around future.result(timeout=15)
collect_catches(exc) == TRUE

\* results[fingerprint] = value
dict_put(d, k, v) == [x \in DOMAIN d \cup {k} |-> IF x = k THEN v ELSE d[x]]

\* "min(len(recipients), 10)"
batch_max_workers(recipients) == IF Len(recipients) < 10 THEN Len(recipients) ELSE 10

\* ThreadPoolExecutor(max_workers=n) raises ValueError unless n > 0
executor_accepts(n) == n > 0

\* "with ThreadPoolExecutor(max_workers=min(len(recipients), 10), ...)": the
\* executor is made, or its constructor raises and so does
\* send_batch_messages
BatchEnter ==
    /\ b_pc = "enter"
    /\ b_pc' = IF executor_accepts(batch_max_workers(b_recipients)) THEN "submit"
              ELSE "raised"
    /\ UNCHANGED <<msgVars, rpVars, srvVars, seen, sendVars, connVars, poolVars, keyVars,
                   b_recipients, b_next, b_results, b_errors, b_late>>

\* executor.submit(send_message, host, port, fingerprint, plaintext, ...) for
\* each recipient; use_pooling is left at its default
BatchSubmit ==
    /\ b_pc = "submit"
    /\ s_pc' = [t \in Senders |-> IF t <= Len(b_recipients) THEN "call" ELSE "off"]
    /\ b_pc' = "collect"
    /\ b_next' = 1
    /\ UNCHANGED <<msgVars, rpVars, srvVars, seen, s_in, s_msg, s_ret, s_sock, s_calls,
                   connVars, poolVars, keyVars, b_recipients, b_results, b_errors, b_late>>

\* one iteration of "for future in futures": future.result(timeout=15) returns
\* or raises what send_message returned or raised, or raises TimeoutError
\* when the send has not ended after 15 s
BatchCollect ==
    /\ b_pc = "collect"
    /\ LET fingerprint == b_recipients[b_next].to
           last == b_next = Len(b_recipients)
       IN \/ /\ s_pc[b_next] = "done"
             /\ s_ret[b_next].ok
             /\ b_results' = dict_put(b_results, fingerprint, TRUE)
             /\ b_pc' = IF last THEN "shutdown" ELSE "collect"
             /\ UNCHANGED <<b_errors, b_late>>
          \/ /\ s_pc[b_next] = "done"
             /\ ~s_ret[b_next].ok
             /\ IF collect_catches(s_ret[b_next].exc)
                THEN /\ b_results' = dict_put(b_results, fingerprint, FALSE)
                     /\ b_errors' = dict_put(b_errors, fingerprint, s_ret[b_next].msg)
                     /\ b_pc' = IF last THEN "shutdown" ELSE "collect"
                ELSE /\ b_pc' = "raised"
                     /\ UNCHANGED <<b_results, b_errors>>
             /\ UNCHANGED b_late
          \/ /\ s_pc[b_next] # "done"
             /\ b_results' = dict_put(b_results, fingerprint, FALSE)
             /\ b_errors' = dict_put(b_errors, fingerprint, "")
             /\ b_late' = b_late \cup {b_next}
             /\ b_pc' = IF last THEN "shutdown" ELSE "collect"
    /\ b_next' = b_next + 1
    /\ UNCHANGED <<msgVars, rpVars, srvVars, seen, sendVars, connVars, poolVars, keyVars,
                   b_recipients>>

\* leaving the with block: executor.shutdown(wait=True), then return
BatchShutdown ==
    /\ b_pc = "shutdown"
    /\ \A t \in 1..Len(b_recipients) : s_pc[t] = "done"
    /\ b_pc' = "done"
    /\ UNCHANGED <<msgVars, rpVars, srvVars, seen, sendVars, connVars, poolVars, keyVars,
                   b_recipients, b_next, b_results, b_errors, b_late>>

InitBatch ==
    /\ MsgIdle
    /\ ReplayIdle
    /\ PoolIdle
    /\ KeysIdle
    /\ seen = <<>>
    /\ ServerStarted
    /\ traffic = {}
    /\ b_pc = "enter"
    /\ b_recipients \in RecipientLists
    /\ b_next = 0
    /\ b_results = <<>>
    /\ b_errors = <<>>
    /\ b_late = {}
    /\ \E plaintext \in {Salut, OverLimit} :
         s_in = [t \in Senders |->
                   IF t <= Len(b_recipients)
                   THEN [to |-> b_recipients[t].to, host |-> b_recipients[t].host,
                         plaintext |-> plaintext, now |-> T0, use_pooling |-> TRUE,
                         message_id |-> SentIds[t]]
                   ELSE None]
    /\ s_pc = [t \in Senders |-> "off"]
    /\ s_msg = [t \in Senders |-> None]
    /\ s_ret = [t \in Senders |-> None]
    /\ s_sock = [t \in Senders |-> 0]
    /\ s_calls = 0
    /\ NoConnections

NextBatch ==
    \/ BatchEnter
    \/ BatchSubmit
    \/ \E t \in Senders : SendStep(t)
    \/ BatchCollect
    \/ BatchShutdown

SpecBatch == InitBatch /\ [][NextBatch]_vars

(***************************************************************************)
(* keystore.py: load_peer_key called by several threads of one process     *)
(* (here the sender's, with the files of SenderPeerFiles under keys/peers).*)
(* The cache is looked up without the lock; the insert is under            *)
(* _cache_lock.                                                            *)
(***************************************************************************)
NumKeyThreads == 2
MaxLoads == 3
KeyThreads == 1..NumKeyThreads
\* the fingerprints the threads ask for: "mallory" has no file
KeyFingerprints == SenderPeerFiles \cup {"mallory"}

\* "with _cache_lock": a thread enters only when no thread holds the lock
cache_lock_available(l) == l = 0

\* a thread calls load_peer_key(fingerprint)
KeyCall(t) ==
    /\ k_pc[t] \in {"idle", "done"}
    /\ k_calls < MaxLoads
    /\ k_calls' = k_calls + 1
    /\ \E fingerprint \in KeyFingerprints : k_arg' = [k_arg EXCEPT ![t] = fingerprint]
    /\ k_after' = [k_after EXCEPT ![t] = FALSE]
    /\ k_pc' = [k_pc EXCEPT ![t] = "check"]
    /\ k_key' = [k_key EXCEPT ![t] = None]
    /\ k_ret' = [k_ret EXCEPT ![t] = None]
    /\ k_reads' = [k_reads EXCEPT ![t] = 0]
    /\ UNCHANGED <<msgVars, rpVars, srvVars, seen, sendVars, connVars, poolVars, batchVars,
                   storeVars, preloadVars, cl_pc, cl_before, cl_next, cache_lock>>

\* "if fingerprint in _peer_key_cache:", evaluated without the lock
KeyCheck(t) ==
    /\ k_pc[t] = "check"
    /\ k_pc' = [k_pc EXCEPT ![t] = IF cache_has(key_cache, k_arg[t]) THEN "read" ELSE "disk"]
    /\ k_after' = [k_after EXCEPT ![t] = cl_pc = "returned" /\ k_arg[t] \notin cl_next]
    /\ cl_next' = IF cl_pc = "returned" THEN cl_next \cup {k_arg[t]} ELSE cl_next
    /\ UNCHANGED <<msgVars, rpVars, srvVars, seen, sendVars, connVars, poolVars, batchVars,
                   storeVars, preloadVars, cl_pc, cl_before,
                   cache_lock, k_arg, k_key, k_ret, k_reads, k_calls>>

\* "return _peer_key_cache[fingerprint]", a second look at the dict, without
\* the lock: a key that is gone by now raises KeyError
KeyRead(t) ==
    /\ k_pc[t] = "read"
    /\ k_ret' = [k_ret EXCEPT ![t] = dict_getitem(key_cache, k_arg[t])]
    /\ k_pc' = [k_pc EXCEPT ![t] = "done"]
    /\ UNCHANGED <<msgVars, rpVars, srvVars, seen, sendVars, connVars, poolVars, batchVars,
                   storeVars, preloadVars, clearVars, cache_lock, k_arg, k_key, k_reads, k_calls>>

\* peer_key_file.exists(), read_bytes(), crypto.load_public_key: a missing
\* file and bytes that are no key raise out of load_peer_key
KeyDisk(t) ==
    /\ k_pc[t] = "disk"
    /\ IF ~file_exists(list_peers(PEERS_DIR), k_arg[t])
       THEN /\ k_ret' = [k_ret EXCEPT ![t] = PeerKeyNotFound]
            /\ k_pc' = [k_pc EXCEPT ![t] = "done"]
            /\ UNCHANGED <<k_key, k_reads>>
       ELSE \E loaded \in {load_public_key(read_bytes(PEERS_DIR, k_arg[t]))} :
            /\ k_reads' = [k_reads EXCEPT ![t] = @ + 1]
            /\ IF loaded.ok
               THEN /\ k_key' = [k_key EXCEPT ![t] = loaded.val]
                    /\ k_pc' = [k_pc EXCEPT ![t] = "insert"]
                    /\ UNCHANGED k_ret
               ELSE /\ k_ret' = [k_ret EXCEPT ![t] = loaded]
                    /\ k_pc' = [k_pc EXCEPT ![t] = "done"]
                    /\ UNCHANGED k_key
    /\ UNCHANGED <<msgVars, rpVars, srvVars, seen, sendVars, connVars, poolVars, batchVars,
                   storeVars, preloadVars, clearVars, cache_lock, k_arg, k_calls>>

\* "with _cache_lock:" entered
KeyAcquire(t) ==
    /\ k_pc[t] = "insert"
    /\ cache_lock_available(cache_lock)
    /\ cache_lock' = t
    /\ k_pc' = [k_pc EXCEPT ![t] = "locked"]
    /\ UNCHANGED <<msgVars, rpVars, srvVars, seen, sendVars, connVars, poolVars, batchVars,
                   storeVars, preloadVars, clearVars, k_arg, k_key, k_ret, k_reads, k_calls>>

\* "_peer_key_cache[fingerprint] = public_key", the lock released, return
KeyInsert(t) ==
    /\ k_pc[t] = "locked"
    /\ key_cache' = cache_put(key_cache, k_arg[t], k_key[t])
    /\ cache_lock' = 0
    /\ k_ret' = [k_ret EXCEPT ![t] = Ok(k_key[t])]
    /\ k_pc' = [k_pc EXCEPT ![t] = "done"]
    /\ UNCHANGED <<msgVars, rpVars, seen, stopVars, running, now, message_queue, accVars, arrived,
                   wVars, delivered, sendVars, connVars, poolVars, batchVars,
                   storeVars, preloadVars, clearVars, k_arg, k_key, k_reads, k_calls>>

KeyStep(t) ==
    \/ KeyCall(t) \/ KeyCheck(t) \/ KeyRead(t)
    \/ KeyDisk(t) \/ KeyAcquire(t) \/ KeyInsert(t)

\* the cache is empty or holds the key of a peer loaded before
InitKeys ==
    /\ MsgIdle
    /\ ReplayIdle
    /\ seen = <<>>
    /\ StopIdle
    /\ running = FALSE /\ now = T0 /\ message_queue = <<>>
    /\ a_pc = "off" /\ arrived = 0 /\ handlers = 0 /\ traffic = {}
    /\ key_cache \in {<<>>, cache_put(<<>>, "bob", PublicKey("bob"))}
    /\ w_pc = <<>> /\ w_item = <<>> /\ w_env = <<>> /\ w_key = <<>> /\ w_res = <<>>
    /\ w_vnow = <<>>
    /\ w_trace = <<>> /\ w_done = <<>> /\ w_drops = <<>> /\ processed = 0
    /\ delivered = <<>>
    /\ s_pc = <<>> /\ s_in = <<>> /\ s_msg = <<>> /\ s_ret = <<>> /\ s_sock = <<>>
    /\ s_calls = 0
    /\ pool = <<>>
    /\ conn = <<>>
    /\ h_pc = <<>> /\ h_data = <<>> /\ h_done = <<>>
    /\ PoolIdle
    /\ BatchIdle
    /\ cache_lock = 0
    /\ k_pc = [t \in KeyThreads |-> "idle"]
    /\ k_arg = [t \in KeyThreads |-> "none"]
    /\ k_key = [t \in KeyThreads |-> None]
    /\ k_ret = [t \in KeyThreads |-> None]
    /\ k_reads = [t \in KeyThreads |-> 0]
    /\ k_calls = 0
    /\ PEERS_DIR = {key_file(o) : o \in SenderPeerFiles}
    /\ ap_hist = <<>>
    /\ PreloadIdle
    /\ ClearIdle
    /\ k_after = [t \in KeyThreads |-> FALSE]

NextKeys == \E t \in KeyThreads : KeyStep(t)

SpecKeys == InitKeys /\ [][NextKeys]_vars

(***************************************************************************)
(* keystore.py: clear_peer_key_cache, called once by a thread of its own   *)
(* while the threads of KeyThreads call load_peer_key.                     *)
(***************************************************************************)
\* the thread that calls clear_peer_key_cache, as a holder of _cache_lock
Clearer == NumKeyThreads + 1

\* "_peer_key_cache.clear()"
cache_clear(cache) == <<>>
\* clear_peer_key_cache is called
ClearCall ==
    /\ cl_pc = "idle"
    /\ cl_pc' = "wait"
    /\ cl_before' = {key_cache[i].fp : i \in 1..Len(key_cache)}
    /\ UNCHANGED <<msgVars, rpVars, srvVars, seen, sendVars, connVars, poolVars, batchVars,
                   storeVars, preloadVars, cl_next, k_after,
                   cache_lock, k_pc, k_arg, k_key, k_ret, k_reads, k_calls>>

\* "with _cache_lock:" entered
ClearAcquire ==
    /\ cl_pc = "wait"
    /\ cache_lock_available(cache_lock)
    /\ cache_lock' = Clearer
    /\ cl_pc' = "locked"
    /\ UNCHANGED <<msgVars, rpVars, srvVars, seen, sendVars, connVars, poolVars, batchVars,
                   storeVars, preloadVars, cl_before, cl_next, k_after,
                   k_pc, k_arg, k_key, k_ret, k_reads, k_calls>>

\* "_peer_key_cache.clear()", the lock released, return
ClearRun ==
    /\ cl_pc = "locked"
    /\ key_cache' = cache_clear(key_cache)
    /\ cache_lock' = 0
    /\ cl_pc' = "returned"
    /\ UNCHANGED <<msgVars, rpVars, seen, stopVars, running, now, message_queue, accVars, arrived,
                   wVars, delivered, sendVars, connVars, poolVars, batchVars,
                   storeVars, preloadVars, cl_before, cl_next, k_after,
                   k_pc, k_arg, k_key, k_ret, k_reads, k_calls>>

NextClear == NextKeys \/ ClearCall \/ ClearAcquire \/ ClearRun

SpecClear == InitKeys /\ [][NextClear]_vars

(***************************************************************************)
(* network.py: ChatServer.stop(), called by a thread of its own while the  *)
(* accept loop, the connection handlers (the threads of self.executor) and *)
(* the processing workers run.  Other peers connect to the listener and    *)
(* send a frame, or send nothing; the listener's process holds the         *)
(* connection pool of its own calls of send_message.                       *)
(*                                                                         *)
(* accept() is called on a socket without timeout.  What close() of the    *)
(* listening socket by another thread does to a thread blocked in accept() *)
(* depends on the platform: the call fails with OSError, or (Linux) it     *)
(* stays blocked until a connection arrives and returns that connection.   *)
(* Both outcomes are in the model.                                         *)
(***************************************************************************)
MaxPeerConns == 2

\* the executor refuses new work once shutdown() was called
executor_shut_down == st_pc \in {"wait", "returned"}

\* "self.running = False"
StopCall ==
    /\ st_pc = "idle"
    /\ running
    /\ running' = FALSE
    /\ st_pc' = "close"
    /\ UNCHANGED <<msgVars, rpVars, netVars, accVars, seen, server_socket, st_late, now,
                   message_queue, arrived, key_cache, wVars, delivered>>

\* "if self.server_socket: self.server_socket.close()"
StopClose ==
    /\ st_pc = "close"
    /\ server_socket' = "closed"
    /\ st_pc' = "shutdown"
    /\ UNCHANGED <<msgVars, rpVars, netVars, accVars, seen, st_late, running, now,
                   message_queue, arrived, key_cache, wVars, delivered>>

\* "self.executor.shutdown(wait=True, cancel_futures=False)" is called: from
\* now on submit raises RuntimeError
StopShutdown ==
    /\ st_pc = "shutdown"
    /\ st_pc' = "wait"
    /\ UNCHANGED <<msgVars, rpVars, netVars, accVars, seen, server_socket, st_late, running,
                   now, message_queue, arrived, key_cache, wVars, delivered>>

\* a handler submitted to the executor that has not returned
HandlerRunning(c) == h_pc[c] \in {"recv_len", "recv_data", "put", "close"}

\* shutdown(wait=True) returns when every handler has returned; stop() prints
\* and returns
StopReturn ==
    /\ st_pc = "wait"
    /\ \A c \in 1..Len(conn) : ~HandlerRunning(c)
    /\ st_pc' = "returned"
    /\ UNCHANGED <<msgVars, rpVars, netVars, accVars, seen, server_socket, st_late, running,
                   now, message_queue, arrived, key_cache, wVars, delivered>>

StopStep == StopCall \/ StopClose \/ StopShutdown \/ StopReturn

\* the frame a peer sends: the length prefix and a payload
PeerFrames == {<<>>, <<LengthPrefix, Valid1>>}

\* another peer connects to the listener: the connection waits in the backlog
\* of the listening socket, which exists while it is open or a thread is
\* still blocked in accept() on it; the peer sends a frame or nothing
PeerConnect ==
    /\ Len(conn) < MaxPeerConns + 1
    /\ \/ server_socket = "listening"
       \/ server_socket = "closed" /\ a_pc = "accept"
    /\ \E wire \in PeerFrames :
         conn' = Append(conn, [host |-> Me, client |-> "open", server |-> "backlog",
                               wire |-> wire])
    /\ h_pc' = Append(h_pc, "none")
    /\ h_data' = Append(h_data, None)
    /\ h_done' = Append(h_done, "none")
    /\ UNCHANGED <<msgVars, rpVars, srvVars, seen, sendVars, pool, threadVars>>

\* the peer closes its end
PeerClose(c) ==
    /\ conn[c].host = Me
    /\ conn[c].client = "open"
    /\ conn' = [conn EXCEPT ![c].client = "closed"]
    /\ UNCHANGED <<msgVars, rpVars, srvVars, seen, sendVars, pool, h_pc, h_data, h_done,
                   threadVars>>

\* accept() returns a connection to the thread that was blocked in it when
\* running became False; executor.submit raises RuntimeError after shutdown,
\* which the loop catches; "while self.running" ends the loop
AcceptAfterStop(c) ==
    /\ ~running
    /\ a_pc = "accept"
    /\ conn[c].host = Me
    /\ conn[c].server = "backlog"
    /\ conn' = [conn EXCEPT ![c].server = "accepted"]
    /\ h_pc' = [h_pc EXCEPT ![c] = IF executor_shut_down THEN "none" ELSE "recv_len"]
    /\ st_late' = IF st_pc = "returned" THEN st_late \cup {c} ELSE st_late
    /\ a_pc' = "exited"
    /\ UNCHANGED <<msgVars, rpVars, seen, sendVars, pool, h_data, h_done, threadVars,
                   st_pc, server_socket, running, now, message_queue, arrived, handlers,
                   traffic, key_cache, wVars, delivered>>

\* the connection that was accepted and not submitted is referred to by
\* nothing once the accept loop has returned; no statement closes it, and
\* the interpreter closes the socket if and when it collects the object
SocketFinalize(c) ==
    /\ a_pc = "exited"
    /\ conn[c].host = Me
    /\ conn[c].server = "accepted"
    /\ h_pc[c] = "none"
    /\ conn' = [conn EXCEPT ![c].server = "closed"]
    /\ UNCHANGED <<msgVars, rpVars, srvVars, seen, sendVars, pool, h_pc, h_data, h_done,
                   threadVars>>

\* the loop ends without another connection: the thread tests
\* "while self.running", at once or after accept() failed on the closed socket
AcceptExit ==
    /\ ~running
    /\ a_pc = "accept"
    /\ a_pc' = "exited"
    /\ UNCHANGED <<msgVars, rpVars, netVars, seen, stopVars, running, now, message_queue,
                   arrived, handlers, traffic, key_cache, wVars, delivered>>

\* a worker tests "while self.running" after its item, or after
\* message_queue.get timed out (0.5 s), and leaves the loop.  A worker takes
\* no item once running is False.
WorkerExit(w) ==
    /\ ~running
    /\ w_pc[w] = "get"
    /\ w_pc' = [w_pc EXCEPT ![w] = "exited"]
    /\ UNCHANGED <<msgVars, rpVars, netVars, accVars, seen, stopVars, running, now,
                   message_queue, arrived, key_cache, w_item, w_env, w_key, w_res, w_vnow,
                   w_trace, w_done, w_drops, processed, delivered>>

\* a socket to "carol" that send_message of this process returned to the pool
PooledSocket == [host |-> "carol", client |-> "open", server |-> "accepted",
                 wire |-> <<LengthPrefix, Valid1>>]

\* the listener is started; its connection pool is empty or holds a socket
InitStop ==
    /\ MsgIdle
    /\ ReplayIdle
    /\ ThreadsIdle
    /\ seen = <<>>
    /\ ServerStarted
    /\ traffic = {}
    /\ s_pc = <<>> /\ s_in = <<>> /\ s_msg = <<>> /\ s_ret = <<>> /\ s_sock = <<>>
    /\ s_calls = 0
    /\ \/ /\ conn = <<PooledSocket>>
          /\ pool = [h \in Hosts |-> IF h = "carol"
                                     THEN <<[sock |-> 1, timestamp |-> T0]>> ELSE <<>>]
       \/ /\ conn = <<[PooledSocket EXCEPT !.client = "closed"]>>
          /\ pool = [h \in Hosts |-> <<>>]
    /\ h_pc = <<"none">> /\ h_data = <<None>> /\ h_done = <<"none">>

NextStop ==
    \/ StopStep
    \/ PeerConnect
    \/ \E c \in Connections : PeerClose(c)
    \/ AcceptSome
    \/ \E c \in Connections : AcceptAfterStop(c)
    \/ \E c \in Connections : SocketFinalize(c)
    \/ AcceptExit
    \/ HandlerSome
    \/ \E w \in Workers : WorkerStep(w) \/ WorkerExit(w)

\* the thread in stop(), the handlers and the workers run when they can; a
\* blocked accept() returns when a connection waits.  Nothing makes a peer
\* connect, send or close, and nothing makes the interpreter collect an
\* object.
SpecStop ==
    /\ InitStop
    /\ [][NextStop]_vars
    /\ WF_vars(StopStep)
    /\ WF_vars(AcceptSome)
    /\ WF_vars(HandlerSome)
    /\ \A w \in Workers : WF_vars(WorkerStep(w) \/ WorkerExit(w))

(***************************************************************************)
(* Claims about ChatServer.stop(), under SpecStop.                         *)
(***************************************************************************)
\* C24: shutdown stops the server.  Once stop() has returned, the accept
\* loop takes no further connection from accept().
C24_StopsAccepting == st_late = {}

\* C25: shutdown closes sockets.  When stop() has returned the connection
\* pool is empty, every socket that was in it is closed, and every
\* connection the listener accepted is closed.
C25_StopClosesSockets ==
    st_pc = "returned"
    => /\ \A h \in Hosts : pool[h] = <<>>
       /\ \A c \in Connections :
            /\ conn[c].host # Me => conn[c].client = "closed"
            /\ conn[c].host = Me => conn[c].server # "accepted"

\* C26: shutdown terminates.  A call of stop() returns.
C26_StopReturns == (st_pc # "idle") ~> (st_pc = "returned")

\* C38: no callback after shutdown.  Once stop() has returned the message
\* callback is not invoked any more, whether a worker had taken the payload
\* from the queue before or the payload is still in the queue.
C38_NoCallbackAfterStop ==
    [][st_pc = "returned" => delivered' = delivered]_vars

\* the peer of connection c has sent a whole frame or closed its end: reading
\* from c does not block
PeerDone(c) == Len(conn[c].wire) >= 2 \/ conn[c].client = "closed"

\* C37: every accepted connection is closed.  Each connection that accept()
\* returned in the accept loop, and whose peer sends a frame or closes, is
\* eventually closed by the listener, also when it was accepted while stop()
\* ran and its handler could not be submitted any more.
C37_AcceptedIsClosed ==
    \A c \in 1..(MaxPeerConns + 1) :
        (/\ c \in Connections
         /\ conn[c].host = Me
         /\ conn[c].server = "accepted"
         /\ PeerDone(c))
        ~> (c \in Connections /\ conn[c].server = "closed")

(***************************************************************************)
(* network.py: the handler pool.  The accept loop submits one call of      *)
(* _handle_client per accepted connection to self.executor, a              *)
(* ThreadPoolExecutor of max_workers = 20 threads: a submitted call waits  *)
(* in the executor's queue until one of the threads is free, and the calls *)
(* are started in the order of their submission.  A handler thread reads   *)
(* with recv() on a socket without timeout.  The peers connect and send a  *)
(* whole frame or nothing, and keep their connections open.                *)
(***************************************************************************)
\* "max_workers=20" of ChatServer.__init__
ExecutorMaxWorkers == 20

MaxHandlerConns == 21
MaxFramed == 1

Framed(c) == conn[c].wire = <<LengthPrefix, Valid1>>

\* a peer connects to the listener, when no other connection waits to be
\* accepted, and sends a frame or nothing
HandlerPeerConnect ==
    /\ Len(conn) < MaxHandlerConns
    /\ server_socket = "listening"
    /\ \A c \in Connections : conn[c].server # "backlog"
    /\ \E wire \in PeerFrames :
         /\ wire # <<>> => Cardinality({c \in Connections : Framed(c)}) < MaxFramed
         /\ conn' = Append(conn, [host |-> Me, client |-> "open", server |-> "backlog",
                                  wire |-> wire])
    /\ h_pc' = Append(h_pc, "none")
    /\ h_data' = Append(h_data, None)
    /\ h_done' = Append(h_done, "none")
    /\ UNCHANGED <<msgVars, rpVars, srvVars, seen, sendVars, pool, threadVars>>

\* _accept_loop, one iteration: accept() returns the connection that waits
\* longest, executor.submit puts the call of _handle_client in the
\* executor's queue
AcceptSubmit(c) ==
    /\ running
    /\ a_pc = "accept"
    /\ conn[c].server = "backlog"
    /\ \A d \in 1..(c - 1) : conn[d].server # "backlog"
    /\ conn' = [conn EXCEPT ![c].server = "accepted"]
    /\ h_pc' = [h_pc EXCEPT ![c] = "submitted"]
    /\ UNCHANGED <<msgVars, rpVars, srvVars, seen, sendVars, pool, h_data, h_done,
                   threadVars>>

\* a thread of the executor takes the call that waits longest; there is a
\* thread for it while fewer than max_workers calls are running
HandlerStart(c) ==
    /\ h_pc[c] = "submitted"
    /\ \A d \in 1..(c - 1) : h_pc[d] # "submitted"
    /\ Cardinality({d \in Connections : HandlerRunning(d)}) < ExecutorMaxWorkers
    /\ h_pc' = [h_pc EXCEPT ![c] = "recv_len"]
    /\ UNCHANGED <<msgVars, rpVars, srvVars, seen, sendVars, pool, conn, h_data, h_done,
                   threadVars>>

InitHandlers ==
    /\ MsgIdle
    /\ ReplayIdle
    /\ NetIdle
    /\ seen = <<>>
    /\ traffic = {}
    /\ ServerStarted

NextHandlers ==
    \/ HandlerPeerConnect
    \/ \E c \in Connections : AcceptSubmit(c)
    \/ \E c \in Connections : HandlerStart(c)
    \/ HandlerSome
    \/ \E w \in Workers : WorkerStep(w)

\* the accept loop, the threads of the executor and the workers run when
\* they can.  Nothing makes a peer connect.
SpecHandlers ==
    /\ InitHandlers
    /\ [][NextHandlers]_vars
    /\ WF_vars(\E c \in Connections : AcceptSubmit(c))
    /\ WF_vars(\E c \in Connections : HandlerStart(c))
    /\ WF_vars(HandlerSome)
    /\ \A w \in Workers : WF_vars(WorkerStep(w))

(***************************************************************************)
(* Claims about the handler pool, under SpecHandlers.                      *)
(***************************************************************************)
\* C36: handler progress under idle connections.  A connection that
\* delivers a complete frame is eventually read and its payload enqueued or
\* shed, however many other accepted connections stay open without sending.
\* (A frame that was delivered stays delivered and a payload that was
\* enqueued or shed stays so: every such connection is eventually served
\* exactly if again and again all of them have been.)
Served(c) == h_done[c] \in {"enqueued", "shed"}

C36_HandlerProgress ==
    []<>(\A c \in Connections : Framed(c) => Served(c))

(***************************************************************************)
(* keystore.py: add_peer_key(public_key_path), called one call after the   *)
(* other.  KeyPaths are the files the caller names; "bob.pem" and          *)
(* "bob_copy.pem" hold the same public key.                                *)
(***************************************************************************)
MaxAdds == 3

KeyPaths == {"bob.pem", "bob_copy.pem", "carol.pem", "notes.txt", "nowhere.pem"}
\* "path.exists()"
path_exists(path) == path # "nowhere.pem"
\* "path.read_bytes()"
path_read_bytes(path) ==
    CASE path \in {"bob.pem", "bob_copy.pem"} -> public_key_bytes("bob")
      [] path = "carol.pem" -> public_key_bytes("carol")
      [] path = "notes.txt" -> Notes

KeyFileNotFound == Raise("FileNotFoundError", "Public key file not found")

\* a store that names the file after the file it was read from
add_peer_key_named_by_path(dir, path) ==
    IF ~path_exists(path)
    THEN [res |-> KeyFileNotFound, dir |-> dir]
    ELSE [res |-> Ok(path), dir |-> write_bytes(dir, path, path_read_bytes(path))]

\* add_peer_key: the value returned or the exception raised, and PEERS_DIR
\* after the call
add_peer_key(dir, path) ==
    IF ~path_exists(path)
    THEN [res |-> KeyFileNotFound, dir |-> dir]
    ELSE LET public_key_data == path_read_bytes(path)
             fingerprint == sha256_hexdigest(public_key_data)
         IN [res |-> Ok(fingerprint),
             dir |-> write_bytes(dir, fingerprint, public_key_data)]

AddPeerKey ==
    /\ Len(ap_hist) < MaxAdds
    /\ \E path \in KeyPaths :
        \E r \in {add_peer_key(PEERS_DIR, path)} :
            /\ PEERS_DIR' = r.dir
            /\ ap_hist' = Append(ap_hist, [path |-> path, ret |-> r.res,
                                           before |-> PEERS_DIR, after |-> r.dir])
    /\ UNCHANGED <<msgVars, rpVars, srvVars, seen, sendVars, connVars, poolVars, batchVars,
                   preloadVars, clearVars, cache_lock, k_pc, k_arg, k_key, k_ret, k_reads, k_calls>>

\* keys/peers is empty, or holds keys added before
InitAdd ==
    /\ MsgIdle
    /\ ReplayIdle
    /\ seen = <<>>
    /\ ServerOff
    /\ s_pc = <<>> /\ s_in = <<>> /\ s_msg = <<>> /\ s_ret = <<>> /\ s_sock = <<>>
    /\ s_calls = 0
    /\ pool = <<>>
    /\ conn = <<>>
    /\ h_pc = <<>> /\ h_data = <<>> /\ h_done = <<>>
    /\ PoolIdle
    /\ BatchIdle
    /\ LoadsIdle
    /\ PEERS_DIR \in {{}, {key_file("carol")}, {key_file("bob"), key_file("dave")}}
    /\ ap_hist = <<>>
    /\ PreloadIdle
    /\ ClearIdle
    /\ k_after = <<>>

NextAdd == AddPeerKey

SpecAdd == InitAdd /\ [][NextAdd]_vars

(***************************************************************************)
(* Claims about add_peer_key, under SpecAdd.                               *)
(***************************************************************************)
SameKey(i, j) ==
    /\ path_exists(ap_hist[i].path)
    /\ path_exists(ap_hist[j].path)
    /\ path_read_bytes(ap_hist[i].path) = path_read_bytes(ap_hist[j].path)

\* C21: a call of add_peer_key with a public key that an earlier call added
\* returns the fingerprint the earlier call returned and leaves the files
\* under keys/peers and their contents as they were; when it follows the
\* earlier call directly they are as the earlier call left them.
C21_AddIdempotent ==
    \A i \in 1..Len(ap_hist) : \A j \in 1..Len(ap_hist) :
        (i < j /\ SameKey(i, j))
        => /\ ap_hist[j].ret.ok
           /\ ap_hist[j].ret = ap_hist[i].ret
           /\ ap_hist[j].after = ap_hist[j].before
           /\ (j = i + 1 => ap_hist[j].after = ap_hist[i].after)

\* the key of "bob" is added to a directory without it, another key is added,
\* and the key of "bob" is added again from a second file
C21_Witness ==
    /\ Len(ap_hist) = 3
    /\ ap_hist[1].path = "bob.pem"
    /\ ap_hist[1].before # ap_hist[1].after
    /\ ap_hist[2].path = "carol.pem"
    /\ ap_hist[3].path = "bob_copy.pem"
    /\ ap_hist[3].ret = Ok(Fingerprint("bob"))
    /\ key_file("bob") \in PEERS_DIR

(***************************************************************************)
(* keystore.py: preload_all_peer_keys.  The threads of its executor run    *)
(* load_single_key, which calls load_peer_key; they are the threads of     *)
(* KeyThreads.  "mallory.pem" is a file under keys/peers that holds no     *)
(* PEM public key.                                                         *)
(***************************************************************************)
no_key_file == [name |-> "mallory", data |-> Notes]

\* the orders in which glob("*.pem") can list the files
Orderings(S) ==
    {q \in [1..Cardinality(S) -> S] : \A x \in S : \E i \in 1..Cardinality(S) : q[i] = x}

\* "max_workers=min(len(fingerprints), 10)"
max_workers(fingerprints) == IF Len(fingerprints) < 10 THEN Len(fingerprints) ELSE 10

catches_file_not_found(exc) == exc = "FileNotFoundError"
\* load_single_key: "except Exception as e"
load_single_key_catches(exc) == TRUE

\* load_single_key: True, False, or the exception it lets through
load_single_key(loaded) ==
    IF loaded.ok THEN Ok(TRUE)
    ELSE IF load_single_key_catches(loaded.exc) THEN Ok(FALSE)
    ELSE loaded

\* "sum(results)"
sum(results) == Cardinality({i \in 1..Len(results) : results[i] = Ok(TRUE)})

\* "fingerprints = list_peers()", "if not fingerprints: return 0"
PreloadList ==
    /\ pl_pc = "call"
    /\ \E fingerprints \in Orderings(list_peers(PEERS_DIR)) :
        IF Len(fingerprints) = 0
        THEN /\ pl_ret' = Ok(0)
             /\ pl_pc' = "done"
             /\ UNCHANGED <<pl_fingerprints, pl_results>>
        ELSE /\ pl_fingerprints' = fingerprints
             /\ pl_results' = [i \in 1..Len(fingerprints) |-> None]
             /\ pl_pc' = "map"
             /\ UNCHANGED pl_ret
    /\ UNCHANGED <<msgVars, rpVars, srvVars, seen, sendVars, connVars, poolVars, batchVars,
                   storeVars, clearVars, pl_next, pl_task,
                   cache_lock, k_pc, k_arg, k_key, k_ret, k_reads, k_calls>>

\* executor.map: a free thread of the executor takes the next fingerprint and
\* calls load_single_key(fingerprint)
PreloadTake(t) ==
    /\ pl_pc = "map"
    /\ t <= max_workers(pl_fingerprints)
    /\ pl_task[t] = 0
    /\ pl_next < Len(pl_fingerprints)
    /\ pl_next' = pl_next + 1
    /\ pl_task' = [pl_task EXCEPT ![t] = pl_next + 1]
    /\ k_arg' = [k_arg EXCEPT ![t] = pl_fingerprints[pl_next + 1]]
    /\ k_pc' = [k_pc EXCEPT ![t] = "check"]
    /\ k_key' = [k_key EXCEPT ![t] = None]
    /\ k_ret' = [k_ret EXCEPT ![t] = None]
    /\ k_reads' = [k_reads EXCEPT ![t] = 0]
    /\ UNCHANGED <<msgVars, rpVars, srvVars, seen, sendVars, connVars, poolVars, batchVars,
                   storeVars, clearVars, pl_pc, pl_fingerprints, pl_results, pl_ret,
                   cache_lock, k_calls>>

\* load_single_key returns or raises: the result of its item
PreloadDone(t) ==
    /\ pl_task[t] # 0
    /\ k_pc[t] = "done"
    /\ pl_results' = [pl_results EXCEPT ![pl_task[t]] = load_single_key(k_ret[t])]
    /\ pl_task' = [pl_task EXCEPT ![t] = 0]
    /\ k_pc' = [k_pc EXCEPT ![t] = "idle"]
    /\ UNCHANGED <<msgVars, rpVars, srvVars, seen, sendVars, connVars, poolVars, batchVars,
                   storeVars, clearVars, pl_pc, pl_fingerprints, pl_next, pl_ret,
                   cache_lock, k_arg, k_key, k_ret, k_reads, k_calls>>

\* "results = list(executor.map(...))" and the end of the with block, which
\* waits for the threads; "loaded = sum(results)", "return loaded".  An
\* exception of an item is raised by the iteration over the results.
PreloadReturn ==
    /\ pl_pc = "map"
    /\ \A i \in 1..Len(pl_results) : pl_results[i] # None
    /\ IF \E i \in 1..Len(pl_results) : ~pl_results[i].ok
       THEN /\ pl_ret' = pl_results[CHOOSE i \in 1..Len(pl_results) :
                              /\ ~pl_results[i].ok
                              /\ \A j \in 1..(i - 1) : pl_results[j].ok]
            /\ pl_pc' = "raised"
       ELSE /\ pl_ret' = Ok(sum(pl_results))
            /\ pl_pc' = "done"
    /\ UNCHANGED <<msgVars, rpVars, srvVars, seen, sendVars, connVars, poolVars, batchVars,
                   storeVars, clearVars, pl_fingerprints, pl_next, pl_task, pl_results,
                   cache_lock, k_pc, k_arg, k_key, k_ret, k_reads, k_calls>>

\* the directories preload_all_peer_keys finds
PreloadDirs ==
    {{}, {no_key_file}, {key_file("bob"), key_file("carol")},
     {key_file("bob"), no_key_file}, {key_file("bob"), key_file("carol"), no_key_file}}

InitPreload ==
    /\ MsgIdle
    /\ ReplayIdle
    /\ seen = <<>>
    /\ StopIdle
    /\ running = FALSE /\ now = T0 /\ message_queue = <<>>
    /\ a_pc = "off" /\ arrived = 0 /\ handlers = 0 /\ traffic = {}
    /\ key_cache \in {<<>>, cache_put(<<>>, "bob", PublicKey("bob"))}
    /\ w_pc = <<>> /\ w_item = <<>> /\ w_env = <<>> /\ w_key = <<>> /\ w_res = <<>>
    /\ w_vnow = <<>>
    /\ w_trace = <<>> /\ w_done = <<>> /\ w_drops = <<>> /\ processed = 0
    /\ delivered = <<>>
    /\ s_pc = <<>> /\ s_in = <<>> /\ s_msg = <<>> /\ s_ret = <<>> /\ s_sock = <<>>
    /\ s_calls = 0
    /\ pool = <<>>
    /\ conn = <<>>
    /\ h_pc = <<>> /\ h_data = <<>> /\ h_done = <<>>
    /\ PoolIdle
    /\ BatchIdle
    /\ cache_lock = 0
    /\ k_pc = [t \in KeyThreads |-> "idle"]
    /\ k_arg = [t \in KeyThreads |-> "none"]
    /\ k_key = [t \in KeyThreads |-> None]
    /\ k_ret = [t \in KeyThreads |-> None]
    /\ k_reads = [t \in KeyThreads |-> 0]
    /\ k_calls = 0
    /\ PEERS_DIR \in PreloadDirs
    /\ ap_hist = <<>>
    /\ pl_pc = "call" /\ pl_fingerprints = <<>> /\ pl_next = 0
    /\ pl_task = [t \in KeyThreads |-> 0]
    /\ pl_results = <<>> /\ pl_ret = None
    /\ ClearIdle
    /\ k_after = [t \in KeyThreads |-> FALSE]

NextPreload ==
    \/ PreloadList
    \/ PreloadReturn
    \/ \E t \in KeyThreads :
          \/ PreloadTake(t) \/ PreloadDone(t)
          \/ KeyCheck(t) \/ KeyRead(t) \/ KeyDisk(t) \/ KeyAcquire(t) \/ KeyInsert(t)

SpecPreload == InitPreload /\ [][NextPreload]_vars

(***************************************************************************)
(* Claims about preload_all_peer_keys, under SpecPreload.                  *)
(***************************************************************************)
\* the file of the fingerprint holds a public key
Loadable(fingerprint) == load_public_key(read_bytes(PEERS_DIR, fingerprint)).ok

\* C22: preload_all_peer_keys never raises; when it has returned, every
\* fingerprint with a file under keys/peers was tried, those that failed
\* included; the value returned is the number of fingerprints whose key
\* loaded, 0 when there is no file; every fingerprint that loaded is in the
\* cache and none that failed is.
C22_Preload ==
    /\ pl_pc # "raised"
    /\ pl_pc = "done"
       => /\ list_peers(PEERS_DIR) = {} => pl_ret = Ok(0)
          /\ \A fingerprint \in list_peers(PEERS_DIR) :
                \E i \in 1..Len(pl_fingerprints) :
                    /\ pl_fingerprints[i] = fingerprint
                    /\ pl_results[i] = Ok(Loadable(fingerprint))
                    /\ Loadable(fingerprint) <=> cache_has(key_cache, fingerprint)
          /\ pl_ret = Ok(Cardinality({f \in list_peers(PEERS_DIR) : Loadable(f)}))

\* three files, the second listed holds no key: the call returned 2
C22_Witness ==
    /\ pl_pc = "done"
    /\ Len(pl_fingerprints) = 3
    /\ pl_fingerprints[2] = "mallory"
    /\ pl_results = <<Ok(TRUE), Ok(FALSE), Ok(TRUE)>>
    /\ pl_ret = Ok(2)

(***************************************************************************)
(* Claims about clear_peer_key_cache, under SpecClear.                     *)
(***************************************************************************)
\* C23: cache invalidation.  After clear_peer_key_cache has returned, the
\* first call of load_peer_key that looks up a fingerprint that was in the
\* cache when clear_peer_key_cache was called reads the file of the
\* fingerprint again and returns its key, also when other calls of
\* load_peer_key were running during the clear.
C23_ClearForcesReload ==
    \A t \in KeyThreads :
        (k_after[t] /\ k_arg[t] \in cl_before /\ k_pc[t] = "done")
        => /\ k_reads[t] = 1
           /\ k_ret[t] = Ok(PublicKey(k_arg[t]))

(***************************************************************************)
(* Claims about the receive path, under SpecServer.                        *)
(***************************************************************************)
WithinWindow(t, clock) ==
    IsNum(t) /\ clock - 300 <= Num(t) /\ Num(t) <= clock + 300

\* the payload parses, names a sender f with a keystore record, carries a
\* signature that verifies under f's public key and the timestamp t, and
\* decrypts to p with the listener's private key
Authentic(payload, f, p, t) ==
    LET envelope == parse_message(payload)
    IN /\ envelope.ok
       /\ Get(envelope.val, "sender_fingerprint") = MpStr(f)
       /\ f \in PeerFiles
       /\ Get(envelope.val, "timestamp") = t
       /\ verify_signature(packb(Del(envelope.val, "signature")),
                           Get(envelope.val, "signature"), PublicKey(f))
       /\ decrypt_message([encrypted_key |-> Get(envelope.val, "encrypted_key"),
                           ciphertext |-> Get(envelope.val, "ciphertext"),
                           nonce |-> Get(envelope.val, "nonce"),
                           tag |-> Get(envelope.val, "tag")], PrivateKey(Me)) = Ok(p)

\* C3: callback authenticity.  A worker reaches the callback only with a
\* payload it took from the queue that parsed, whose sender has a keystore
\* record, whose id was not in the replay window when it was checked, whose
\* signature verifies under the sender's key, whose timestamp was within
\* 300 s of the clock read by verify_and_decrypt and which decrypts to the
\* plaintext it passes; every recorded invocation (f, p, t) is of that kind.
C3_CallbackAuthentic ==
    /\ \A w \in Workers :
         w_pc[w] = "callback"
         => /\ Authentic(w_item[w], WorkerSender(w), w_res[w],
                         Get(WorkerEnvelope(w), "timestamp"))
            /\ WithinWindow(Get(WorkerEnvelope(w), "timestamp"), w_vnow[w])
            /\ w_key[w] = PublicKey(WorkerSender(w))
            /\ \E i \in 1..Len(w_trace[w]) : w_trace[w][i] = "DuplicateChecked"
    /\ \A i \in 1..Len(delivered) :
         \E j \in 1..Len(Payloads) :
            /\ Authentic(Payloads[j], delivered[i].f, delivered[i].p, delivered[i].t)
            /\ \E clock \in Clock : WithinWindow(delivered[i].t, clock)

C3_Witness ==
    /\ Len(delivered) = 2
    /\ delivered[1] = [f |-> "alice", p |-> Hello, t |-> MpFloat(T0)]
    /\ delivered[2] = [f |-> "alice", p |-> Hello, t |-> MpFloat(T0 + 301)]

ReceiveStages ==
    <<"Decoded", "SignatureVerified", "FreshnessChecked", "DuplicateChecked", "Decrypted">>

IsPrefix(a, b) == Len(a) <= Len(b) /\ \A i \in 1..Len(a) : a[i] = b[i]

\* C6: receive-path order.  The stages an envelope has passed are always an
\* initial part of Decoded, SignatureVerified, FreshnessChecked,
\* DuplicateChecked, Decrypted: its id is checked against and recorded in the
\* replay window only after its signature and its freshness were checked.
C6_ReceiveOrder ==
    \A w \in Workers :
        IsPrefix(SelectSeq(w_trace[w], LAMBDA st : st \in Range(ReceiveStages)),
                 ReceiveStages)

\* the steps of the worker's loop body, with the checks verify_and_decrypt
\* passes, in the order of the code
WorkerOrder ==
    <<"Decoded", "KeyLoaded", "DuplicateChecked", "SignatureVerified", "FreshnessChecked",
      "Decrypted", "Callback">>

\* worker w drops its payload in this step
Drops(w) == w_drops'[w] = w_drops[w] + 1

\* the payload parses and names a sender whose key file exists
ParsesWithKnownSender(data) ==
    /\ parse_message(data).ok
    /\ Get(parse_message(data).val, "sender_fingerprint").str \in PeerFiles

\* C29: worker step order.  What a worker has done with its payload is an
\* initial part of parse, key lookup, duplicate check, verify_and_decrypt,
\* callback, or parse, key lookup and a duplicate check that found the id.
\* A payload that does not parse or whose sender has no key file is dropped
\* in the worker's first steps, with no duplicate check and the replay
\* window unchanged, and no other payload is dropped there.  A payload whose
\* id is in the window is dropped at the duplicate check, with the window
\* unchanged and without verify_and_decrypt or the callback; every other one
\* has its id recorded and goes on to verify_and_decrypt.  A payload that
\* verify_and_decrypt rejects does not reach the callback.
C29_WorkerOrder ==
    /\ [](\A w \in Workers :
            \/ IsPrefix(w_trace[w], WorkerOrder)
            \/ w_trace[w] = <<"Decoded", "KeyLoaded", "Duplicate">>)
    /\ [][\A w \in Workers :
            /\ w_pc[w] = "get" /\ (w_pc'[w] # "get" \/ Drops(w))
                 => /\ Drops(w) <=> ~ParsesWithKnownSender(Head(message_queue))
                    /\ Drops(w) => /\ seen' = seen
                                   /\ delivered' = delivered
                                   /\ IsPrefix(w_trace'[w], <<"Decoded">>)
                                   /\ w_pc'[w] = "get"
                    /\ ~Drops(w) => w_pc'[w] = "dup"
            /\ w_pc[w] = "dup" /\ w_pc'[w] # "dup"
                 => LET message_id == Get(w_env[w], "message_id").str
                    IN /\ Drops(w) <=> message_id \in Range(seen)
                       /\ Drops(w) => /\ seen' = seen
                                      /\ delivered' = delivered
                                      /\ w_vnow'[w] = w_vnow[w] /\ w_res'[w] = w_res[w]
                                      /\ w_pc'[w] = "get"
                       /\ ~Drops(w) => /\ message_id \in Range(seen')
                                       /\ w_pc'[w] = "verify"
            /\ w_pc[w] = "verify" /\ Drops(w)
                 => /\ delivered' = delivered
                    /\ w_pc'[w] = "get"
            /\ w_pc'[w] = "callback" => w_pc[w] \in {"verify", "callback"}]_vars

\* a payload went through every step to the callback, and the other worker
\* dropped a payload with the same id at the duplicate check
C29_Witness ==
    \E w \in Workers :
        /\ w_done[w] = "duplicate"
        /\ w_trace[w] = <<"Decoded", "KeyLoaded", "Duplicate">>
        /\ \E v \in Workers \ {w} : w_trace[v] = WorkerOrder
        /\ Len(delivered) = 1

(***************************************************************************)
(* Claims about the checks inside verify_and_decrypt, under SpecMsg.       *)
(***************************************************************************)
\* the envelope is as create_message signed it and is verified with the
\* public key of its signer
MsgSignatureValid == MsgIntact /\ m_rx.sender = m_in.sender

\* verify_and_decrypt reached crypto.decrypt_message, which uses the private key
MsgDecryptInvoked == "FreshnessChecked" \in Range(m_passed)

\* C30: no decryption of unauthenticated input.  verify_and_decrypt checks
\* the signature, then the timestamp, then decrypts.  It calls the
\* private-key decryption exactly for the envelopes whose signature verifies
\* and whose timestamp is within 300 s of the clock.  An envelope whose
\* signature does not verify is rejected as an invalid signature before any
\* other check, also when its timestamp is outside the window.
C30_VerifyBeforeDecrypt ==
    m_pc = "done"
    => /\ IsPrefix(m_passed, <<"SignatureVerified", "FreshnessChecked", "Decrypted">>)
       /\ MsgDecryptInvoked <=> (MsgSignatureValid /\ MsgInWindow)
       /\ ~MsgSignatureValid
            => /\ m_result = Raise("ValueError", "Invalid signature")
               /\ m_passed = <<>>
       /\ m_result.ok => m_passed[Len(m_passed)] = "Decrypted"

\* an envelope whose timestamp was changed in transit, received 301 s later:
\* the signature is invalid and the timestamp is too old
C30_Witness ==
    /\ m_pc = "done"
    /\ m_tamper = "timestamp"
    /\ m_rx.now = T0 + 301
    /\ m_rx.sender = m_in.sender /\ m_rx.me = m_in.recipient
    /\ m_result = Raise("ValueError", "Invalid signature")
    /\ m_passed = <<>>

(***************************************************************************)
(* Claims about send_message and the listener, under SpecE2E.              *)
(***************************************************************************)
\* the invocations of the callback with the sender's fingerprint and plaintext
SenderInvocations ==
    {i \in 1..Len(delivered) :
        delivered[i].f = Fingerprint("alice") /\ delivered[i].p = s_in[1].plaintext}

\* send_message returned True
Sent == s_pc[1] = "done" /\ s_ret[1] = Ok(TRUE)

\* the listener's clock is within 300 s of the timestamp of the envelope
InWindow == now - 300 <= s_in[1].now /\ s_in[1].now <= now + 300

AtQueue == \A w \in Workers : w_pc[w] = "get"

\* the call is over and the listener has nothing left to do
Quiescent ==
    /\ s_pc[1] = "done"
    /\ \A c \in Connections : conn[c].server \in {"none", "closed"}
    /\ \A c \in Connections : h_pc[c] \in {"none", "done"}
    /\ handlers = 0
    /\ message_queue = <<>>
    /\ AtQueue

\* the handler of a connection found the queue full and dropped the frame
Shed == \E c \in Connections : h_done[c] = "shed"

InProgress == {w \in Workers : w_pc[w] \in {"dup", "verify", "callback"}}
\* the payloads put on the queue so far
Enqueued == processed + Len(message_queue) + Cardinality(InProgress)

\* the worker is done with a payload that passes every step: it parses, its
\* sender is known, its id was new, and verify_and_decrypt accepted it
FinishedValid(w) ==
    /\ w_pc[w] \in {"get", "dead"}
    /\ w_done[w] # "none"
    /\ parse_message(w_item[w]).ok
    /\ WorkerSender(w) \in PeerFiles
    /\ \E i \in 1..Len(w_trace[w]) : w_trace[w][i] = "DuplicateChecked"
    /\ verify_and_decrypt(WorkerEnvelope(w), PublicKey(WorkerSender(w)),
                          PrivateKey(Me), w_vnow[w]).res.ok

\* C10: receive-path recovery.  No payload ends a worker or the accept loop:
\* whatever step fails, the worker is back at the queue.  A payload that passes every step
\* reaches the callback also when the worker dropped payloads before, and
\* whenever payloads are pending, every payload put on the queue gets
\* processed and the workers wait at the queue again.
C10_Recovery ==
    /\ [](\A w \in Workers : w_pc[w] # "dead")
    /\ [](running => a_pc = "accept")
    /\ [](\A w \in Workers :
            FinishedValid(w) => w_done[w] \in {"delivered", "callback raised"})
    /\ (Enqueued > processed) ~> (Enqueued = processed /\ AtQueue)

\* a worker that dropped a payload took a valid one afterwards and delivered it
C10_Witness ==
    \E w \in Workers :
        /\ w_pc[w] = "get"
        /\ w_drops[w] >= 1
        /\ w_done[w] = "delivered"
        /\ FinishedValid(w)
        /\ delivered = <<[f |-> "alice", p |-> Hello, t |-> MpFloat(T0)]>>

\* the message id a payload that parses carries
MessageIdOf(payload) == Get(parse_message(payload).val, "message_id").str

\* the payload is a validly signed envelope of a known sender, addressed to
\* the listener, with its timestamp within 300 s of the clock
ValidAt(payload, clock) ==
    \E f \in PeerFiles, p \in {Hello}, t \in {MpFloat(T0), MpFloat(T0 + 301)} :
        Authentic(payload, f, p, t) /\ WithinWindow(t, clock)

\* a delivered message carried the id
DeliveredWithId(id) ==
    \E i \in 1..Len(delivered) :
        \E j \in 1..Len(Payloads) :
            /\ Authentic(Payloads[j], delivered[i].f, delivered[i].p, delivered[i].t)
            /\ MessageIdOf(Payloads[j]) = id

\* a worker has a valid payload with the id past the duplicate check, on its
\* way to the callback
InDeliveryWithId(id) ==
    \E v \in Workers :
        /\ w_pc[v] \in {"verify", "callback"}
        /\ MessageIdOf(w_item[v]) = id
        /\ ValidAt(w_item[v], now)

\* C32: replay-window poisoning.  A worker does not drop as a duplicate a
\* validly signed, fresh envelope of a known sender unless a message with
\* its id was delivered, or is being delivered by another worker: payloads
\* that were rejected before it, forged ones with its id among them, do not
\* keep it from the callback.
C32_NoPoisoning ==
    \A w \in Workers :
        (w_pc[w] = "get" /\ w_done[w] = "duplicate" /\ ValidAt(w_item[w], now))
        => \/ DeliveredWithId(MessageIdOf(w_item[w]))
           \/ InDeliveryWithId(MessageIdOf(w_item[w]))

(***************************************************************************)
(* Claims about repeated envelopes, under SpecCopies.                      *)
(***************************************************************************)
\* what the callback is given for the envelopes, with the id they carry
CopyInvocations ==
    {[id |-> MessageIdOf(x[1]), f |-> x[2].f, p |-> x[2].p, t |-> x[2].t] :
        x \in {y \in Range(CopyPayloads)
                      \X [f : PeerFiles, p : {Hello},
                          t : {MpFloat(T0), MpFloat(T0 + 1), MpFloat(T0 + 2)}] :
                  Authentic(y[1], y[2].f, y[2].p, y[2].t)}}

\* the invocations of the callback for a message that carried the id
Deliveries(id) ==
    {i \in 1..Len(delivered) :
        [id |-> id, f |-> delivered[i].f, p |-> delivered[i].p, t |-> delivered[i].t]
            \in CopyInvocations}

CopyIds == {MessageIdOf(CopyPayloads[j]) : j \in 1..Len(CopyPayloads)}

\* C33 as stated: at-most-once delivery.  For every message id the callback
\* is invoked at most once, however many copies of the envelope arrive
\* within the freshness window and whatever is processed in between.
C33_AtMostOnce ==
    \A id \in CopyIds : Cardinality(Deliveries(id)) <= 1

\* C33: at-most-once delivery while the id is in the replay window.  For
\* every message id the callback is invoked at most once as long as the
\* replay window has not dropped the id: a message id is delivered a second
\* time only after as many other ids as the window holds were recorded after
\* it and the window evicted it.
C33_AtMostOnceInWindow ==
    \A id \in CopyIds : Cardinality(Deliveries(id)) >= 2 => id \in rp_evicted

\* two copies of alice's envelope and another envelope in between were
\* processed: one copy was delivered, the other dropped as a duplicate
C33_Witness ==
    /\ Len(delivered) = 2
    /\ Cardinality(Deliveries("id1")) = 1
    /\ processed >= 3
    /\ rp_evicted = {}
    /\ Len(seen) = 2
    /\ \E w \in Workers : w_done[w] = "duplicate" /\ w_item[w] = Valid1

(***************************************************************************)
(* Claims about the connection handler and the work queue, under SpecE2E.  *)
(***************************************************************************)
\* C11: queue-full shedding.  The work queue never holds more than its
\* maxsize; a handler that has read a complete frame while the queue is full
\* drops the payload, leaves the queued items as they are and goes on to
\* close the connection: it does not wait for room, the connection of a
\* handler holding a frame is eventually closed.
C11_QueueShedding ==
    /\ [](Len(message_queue) <= QueueMaxsize)
    /\ [][\A c \in Connections :
            (h_pc[c] = "put" /\ h_pc'[c] # "put" /\ queue_full(message_queue))
            => /\ message_queue' = message_queue
               /\ h_done'[c] = "shed"
               /\ h_pc'[c] = "close"]_vars
    /\ (\E c \in Connections : h_pc[c] = "put")
          ~> (\E c \in Connections : conn[c].server = "closed" /\ h_pc[c] = "done")

\* the handler read the sender's frame, found the queue full and closed the
\* connection, the queue still full
C11_Witness ==
    /\ Connections # {}
    /\ h_pc[1] = "done"
    /\ h_done[1] = "shed"
    /\ h_data[1] = s_msg[1]
    /\ conn[1].server = "closed"
    /\ Len(message_queue) = QueueMaxsize

(***************************************************************************)
(* Claims about send_message and the connection pool, under SpecSend.      *)
(***************************************************************************)
\* C12: one envelope per connection.  Over any sequence of send_message
\* calls no connection to the running listener carries more than one frame
\* (a length prefix and one message_data), and the handler of a connection
\* closes it after the first frame without reading further.
C12_OneEnvelope ==
    \A c \in Connections :
        conn[c].host = Me
        => /\ Len(conn[c].wire) <= 2
           /\ h_pc[c] = "done" => conn[c].server = "closed"

\* the listener has nothing left to do: every connection to it was accepted
\* and its handler has returned
ListenerQuiet ==
    \A c \in Connections :
        conn[c].host = Me => conn[c].server \in {"none", "closed"} /\ h_pc[c] \in {"none", "done"}

\* C34: successful send is received.  When send_message has returned True
\* for the peer with the running listener and the listener has handled every
\* connection made to it, the envelope the call wrote is on the work queue
\* (the queue never fills up here), also when the call used a socket from
\* the pool.
C34_SentIsReceived ==
    \A t \in Senders :
        (s_pc[t] = "done" /\ s_ret[t] = Ok(TRUE) /\ s_in[t].host = Me /\ ListenerQuiet
            /\ Len(message_queue) < QueueMaxsize)
        => \E i \in 1..Len(message_queue) : message_queue[i] = s_msg[t]

\* the call failed with an I/O failure after it had obtained a socket
IoFailed(t) ==
    /\ s_pc[t] = "done"
    /\ ~s_ret[t].ok
    /\ s_ret[t].exc = "ConnectionError"
    /\ s_sock[t] # 0

Pooled(sock) == \E h \in Hosts : \E i \in 1..Len(pool[h]) : pool[h][i].sock = sock

\* C13: send failure closes the socket.  When send_message has failed with
\* an I/O failure after it obtained a socket (at connect or at a write, on
\* a fresh or a pooled socket), that socket is closed and is not an entry of
\* the connection pool.
C13_FailureClosesSocket ==
    \A t \in Senders :
        IoFailed(t) => conn[s_sock[t]].client = "closed" /\ ~Pooled(s_sock[t])

\* the socket of the call was never connected: the failure was at connect
FailedAtConnect(t) == IoFailed(t) /\ conn[s_sock[t]].client = "unconnected"

\* C14: send error kinds.  A failure to establish the connection surfaces
\* as the "could not connect" ConnectionError and a failure while writing
\* the frame on an established connection as the "failed mid-send" one.
C14_ErrorKinds ==
    \A t \in Senders :
        IoFailed(t) => s_ret[t] = IF FailedAtConnect(t) THEN CouldNotConnect ELSE FailedToSend

\* the call in its first step, with a recipient without keystore record or a
\* plaintext of more than 10,000 characters
FailsEarly(t) ==
    /\ s_pc[t] = "call"
    /\ s_in[t].to \notin SenderPeerFiles \/ StrLen(s_in[t].plaintext) > MAX_PLAINTEXT

\* C15: send fails early.  A call whose recipient has no keystore record, or
\* whose plaintext has more than 10,000 characters, ends in its first step
\* with that error (ValueError): it takes no socket from the pool and dials
\* none, the pool and every socket and the bytes written are as before.
C15_FailsEarly ==
    [][\A t \in Senders :
         (FailsEarly(t) /\ s_pc'[t] # s_pc[t])
         => /\ s_pc'[t] = "done"
            /\ s_ret'[t] = IF s_in[t].to \notin SenderPeerFiles
                           THEN Raise("ValueError", "Peer not found")
                           ELSE Raise("ValueError", "Message too large (max 10,000 chars)")
            /\ s_sock'[t] = 0
            /\ pool' = pool
            /\ conn' = conn]_vars

\* the second call, to an unknown fingerprint at the address of a peer with a
\* pooled socket, has failed and the socket is still in the pool
C15_Witness ==
    /\ s_calls = 2
    /\ s_pc[1] = "done"
    /\ s_in[1].to = "mallory"
    /\ s_ret[1] = Raise("ValueError", "Peer not found")
    /\ Len(pool["bob"]) = 1
    /\ Len(conn) = 1
    /\ s_sock[1] = 0

(***************************************************************************)
(* Claims about the ConnectionPool, under SpecPool.                        *)
(***************************************************************************)
\* thread t leaves return_connection in this step
Returns(t) == p_pc[t] = "in return" /\ p_pc'[t] = "idle"

\* C16: pool capacity.  Whatever calls of get_connection and
\* return_connection the threads make on whatever buckets, no bucket ever
\* holds more than max_connections_per_peer entries.  return_connection
\* appends the socket with the time of the call when the bucket holds fewer
\* entries, and closes no socket; otherwise it closes the socket returned
\* and leaves the bucket as it is.  The other buckets are not touched.
C16_PoolCapacity ==
    /\ [](\A h \in Hosts : Len(pool[h]) <= MAX_CONNECTIONS_PER_PEER)
    /\ [][\A t \in PoolThreads :
            Returns(t)
            => /\ \A h \in Hosts \ {p_key[t]} : pool'[h] = pool[h]
               /\ IF Len(pool[p_key[t]]) < MAX_CONNECTIONS_PER_PEER
                  THEN /\ pool'[p_key[t]] = Append(pool[p_key[t]],
                                                   [sock |-> p_sock[t],
                                                    timestamp |-> p_now])
                       /\ conn' = conn
                  ELSE /\ pool'[p_key[t]] = pool[p_key[t]]
                       /\ conn'[p_sock[t]].client = "closed"]_vars

\* a bucket is full, a socket returned to it after that was closed, and every
\* thread is back from its call
C16_Witness ==
    /\ Len(pool["bob"]) = MAX_CONNECTIONS_PER_PEER
    /\ \E c \in Connections : conn[c].host = "bob" /\ conn[c].client = "closed"
    /\ \A t \in PoolThreads : p_pc[t] = "idle"

\* thread t leaves return_connection in this step, and the bucket was full
Overflows(t) ==
    Returns(t) /\ Len(pool[p_key[t]]) >= MAX_CONNECTIONS_PER_PEER

\* C17 as stated: pool overflow closes the oldest.  A socket returned to a
\* full bucket is kept, and the entry that has been in the bucket longest
\* is closed and removed.
C17_OverflowClosesOldest ==
    [][\A t \in PoolThreads :
         Overflows(t)
         => /\ conn'[Head(pool[p_key[t]]).sock].client = "closed"
            /\ pool'[p_key[t]] = Append(Tail(pool[p_key[t]]),
                                        [sock |-> p_sock[t], timestamp |-> p_now])]_vars

\* C17, amended: pool overflow closes the socket returned.  A socket returned
\* to a full bucket is closed and does not become an entry; the entries of
\* the bucket, the sockets returned earliest, stay as they are, none of them
\* is closed, the oldest first.
C17_OverflowClosesReturned ==
    [][\A t \in PoolThreads :
         Overflows(t)
         => /\ conn'[p_sock[t]].client = "closed"
            /\ \A i \in 1..Len(pool'[p_key[t]]) : pool'[p_key[t]][i].sock # p_sock[t]
            /\ pool'[p_key[t]] = pool[p_key[t]]
            /\ \A i \in 1..Len(pool[p_key[t]]) :
                  conn'[pool[p_key[t]][i].sock] = conn[pool[p_key[t]][i].sock]]_vars

\* sockets 1, 2, 3 were returned to the bucket of one peer in that order and
\* then socket 4: the bucket still holds 1, 2, 3 and socket 4 is closed
C17_Witness ==
    /\ Len(pool["bob"]) = MAX_CONNECTIONS_PER_PEER
    /\ \A i \in 1..MAX_CONNECTIONS_PER_PEER : pool["bob"][i].sock = i
    /\ Len(conn) = 4
    /\ conn[4].host = "bob"
    /\ conn[4].client = "closed"
    /\ \A i \in 1..MAX_CONNECTIONS_PER_PEER : conn[i].client = "open"

(***************************************************************************)
(* Claims about the locks of the pool, under SpecPool.                     *)
(***************************************************************************)
\* the threads inside get_connection or return_connection for the bucket
InBucket(h) == {t \in PoolThreads : p_pc[t] # "idle" /\ p_key[t] = h}

\* C31: per-key pool locking.  At most one thread at a time is inside
\* get_connection or return_connection for the same (host, port).  A thread
\* that calls either of them for a (host, port) no thread is inside of can
\* enter at once, whatever threads are inside the calls for other
\* (host, port): no lock is shared between buckets.
C31_PerKeyLocks ==
    /\ \A h \in Hosts : Cardinality(InBucket(h)) <= 1
    /\ \A t \in PoolThreads :
         \A h \in PoolKeys(t) :
            (p_pc[t] = "idle" /\ InBucket(h) = {}) => ENABLED PoolCallOn(t, h)

\* one thread is inside a call for "bob" while the other is inside a call
\* for "carol"
C31_Witness ==
    \E t, u \in PoolThreads :
        /\ p_pc[t] = "in get" /\ p_key[t] = "bob"
        /\ p_pc[u] = "in return" /\ p_key[u] = "carol"

(***************************************************************************)
(* Claims about get_connection, under SpecAcquire.                         *)
(***************************************************************************)
\* thread t leaves get_connection in this step
Gets(t) == p_pc[t] = "in get" /\ p_pc'[t] = "idle"

\* the entry was returned less than connection_timeout ago and its socket
\* is connected
Usable(entry) ==
    /\ p_now - entry.timestamp < CONNECTION_TIMEOUT
    /\ conn[entry.sock].client = "open"

\* C27: pool acquire.  get_connection looks at the entries of the bucket of
\* its (host, port) from the newest to the oldest.  It returns the socket
\* of the first entry that was returned to the bucket less than
\* connection_timeout ago and is alive, and the bucket then holds exactly
\* the entries older than that one; the entries it passed over are expired
\* or dead.  It returns None only when no entry qualifies, and the bucket is
\* then empty.  The other buckets are not touched.
C27_PoolAcquire ==
    [][\A t \in PoolThreads :
         Gets(t)
         => LET bucket == pool[p_key[t]]
            IN /\ \A h \in Hosts \ {p_key[t]} : pool'[h] = pool[h]
               /\ IF p_sock'[t] = 0
                  THEN /\ pool'[p_key[t]] = <<>>
                       /\ \A i \in 1..Len(bucket) : ~Usable(bucket[i])
                  ELSE \E i \in 1..Len(bucket) :
                         /\ bucket[i].sock = p_sock'[t]
                         /\ Usable(bucket[i])
                         /\ \A j \in (i + 1)..Len(bucket) : ~Usable(bucket[j])
                         /\ pool'[p_key[t]] = SubSeq(bucket, 1, i - 1)]_vars

\* C35: no socket leak on acquire.  Every socket that get_connection takes
\* out of the bucket and does not return to its caller, because its entry
\* is too old or because its probe failed, is closed when get_connection
\* returns.
C35_AcquireClosesDropped ==
    [][\A t \in PoolThreads :
         Gets(t)
         => LET bucket == pool[p_key[t]]
            IN \A i \in 1..Len(bucket) :
                 (/\ bucket[i].sock # p_sock'[t]
                  /\ \A j \in 1..Len(pool'[p_key[t]]) :
                        pool'[p_key[t]][j].sock # bucket[i].sock)
                 => conn'[bucket[i].sock].client = "closed"]_vars

\* the latest call found three entries, passed over the newest, which was
\* dead and is closed now, and returned the socket of the second; the oldest
\* is still in the bucket
C27_Witness ==
    /\ Len(p_before) = 3
    /\ conn[p_before[3].sock].client = "closed"
    /\ \E t \in PoolThreads : p_pc[t] = "idle" /\ p_sock[t] = p_before[2].sock
    /\ pool["bob"] = <<p_before[1]>>

\* the threads that hold socket c: get_connection returned it to them and
\* they have not left return_connection with it
Holders(c) == {t \in PoolThreads : p_sock[t] = c}

\* socket c is an entry of a bucket
InSomeBucket(c) == \E h \in Hosts : \E i \in 1..Len(pool[h]) : pool[h][i].sock = c

\* C39: exclusive socket ownership.  Under any interleaving of calls of
\* get_connection and return_connection, each caller returning a socket
\* once per acquisition, no socket is held by two callers at a time and no
\* socket is both an entry of a bucket and held by a caller.
C39_ExclusiveOwnership ==
    \A c \in Connections :
        /\ Cardinality(Holders(c)) <= 1
        /\ ~(InSomeBucket(c) /\ Holders(c) # {})

\* two callers hold a socket each: one is inside return_connection with
\* its socket, the other's was handed out by the latest get_connection; a
\* third socket is in the bucket
C39_Witness ==
    /\ Len(p_before) >= 2
    /\ \E t, u \in PoolThreads :
         /\ t # u
         /\ p_sock[t] # 0
         /\ p_sock[u] # 0
         /\ \E i \in 1..Len(p_before) : p_before[i].sock = p_sock[u]
         /\ p_pc[t] = "in return"
    /\ Len(pool["bob"]) = 1

(***************************************************************************)
(* Claims about send_batch_messages, under SpecBatch.                      *)
(***************************************************************************)
Futures == 1..Len(b_recipients)
FingerprintOf(i) == b_recipients[i].to
BatchFingerprints == {FingerprintOf(i) : i \in Futures}

\* send_batch_messages has returned: every recipient's send was attempted
\* and has ended, the result map has exactly one entry per recipient, and
\* the keys of the error map are the recipients whose result is False
BatchReturned ==
    /\ \A i \in Futures : s_pc[i] = "done"
    /\ DOMAIN b_results = BatchFingerprints
    /\ DOMAIN b_errors = {f \in BatchFingerprints : ~b_results[f]}

\* C18 as stated: fan-out isolation.  For a recipient list that is not
\* empty send_batch_messages never raises; when it has returned, every send
\* was attempted, the result map has one entry per recipient, True exactly
\* for the recipients whose send succeeded, and the error map's keys are the
\* recipients whose result is False.
C18_FanOutExact ==
    b_recipients # <<>>
    => /\ b_pc # "raised"
       /\ b_pc = "done"
          => /\ BatchReturned
             /\ \A i \in Futures : b_results[FingerprintOf(i)] = s_ret[i].ok

\* C18, amended: the result of a recipient is True exactly when its send
\* succeeded and had ended when the caller's wait of 15 s for it was over; a
\* send that was still running then has the result False and an error entry,
\* whatever it returns later.
C18_FanOut ==
    b_recipients # <<>>
    => /\ b_pc # "raised"
       /\ b_pc = "done"
          => /\ BatchReturned
             /\ \A i \in Futures :
                   b_results[FingerprintOf(i)] = (s_ret[i].ok /\ i \notin b_late)

\* three recipients, the first without keystore record, the second
\* unreachable, the third reached: two results False with an error, one True
C18_Witness ==
    /\ b_pc = "done"
    /\ b_late = {}
    /\ Len(b_recipients) = 3
    /\ FingerprintOf(1) = "mallory" /\ FingerprintOf(2) = "carol" /\ FingerprintOf(3) = "bob"
    /\ s_ret[1] = Raise("ValueError", "Peer not found")
    /\ s_ret[2] = CouldNotConnect
    /\ s_ret[3] = Ok(TRUE)
    /\ b_results = [f \in {"mallory", "carol", "bob"} |-> f = "bob"]
    /\ DOMAIN b_errors = {"mallory", "carol"}

\* C40: fan-out with no recipients.  send_batch_messages called with an
\* empty recipient list does not raise, and returns an empty result map and
\* an empty error map.
C40_EmptyFanOut ==
    b_recipients = <<>>
    => /\ b_pc # "raised"
       /\ b_pc = "done" => (b_results = <<>> /\ b_errors = <<>>)

(***************************************************************************)
(* Claims about the peer-key cache, under SpecKeys.                        *)
(***************************************************************************)
\* the positions of the cache entries for a fingerprint
EntriesOf(fingerprint) == {i \in 1..Len(key_cache) : key_cache[i].fp = fingerprint}

\* C19: concurrent cache fill.  Every call of load_peer_key for a
\* fingerprint on disk returns the public key of that fingerprint, also
\* when other threads load it at the same time, and none fails; the cache
\* never holds two entries for a fingerprint, and once a call has returned
\* it holds exactly one entry for its fingerprint, with the right key.
C19_ConcurrentFill ==
    /\ \A f \in KeyFingerprints : Cardinality(EntriesOf(f)) <= 1
    /\ \A t \in KeyThreads :
         (k_pc[t] = "done" /\ k_arg[t] \in SenderPeerFiles)
         => /\ k_ret[t] = Ok(PublicKey(k_arg[t]))
            /\ \E i \in 1..Len(key_cache) :
                  /\ EntriesOf(k_arg[t]) = {i}
                  /\ key_cache[i].key = PublicKey(k_arg[t])

\* two threads missed the cache for the same fingerprint, both read the file
\* and both inserted
C19_Witness ==
    /\ \A t \in {1, 2} :
         /\ k_pc[t] = "done"
         /\ k_arg[t] = "carol"
         /\ k_reads[t] = 1
         /\ k_ret[t] = Ok(PublicKey("carol"))
    /\ k_calls = 2
    /\ Cardinality(EntriesOf("carol")) = 1

\* C20: load_peer_key lookup.  A call for a cached fingerprint returns the
\* cached key at the lookup (the membership test, then the read of the
\* entry), without reading the file and without changing the cache.  A call that misses goes to the disk: with a file for the
\* fingerprint it reads it once, then inserts the key into the cache and
\* returns it; without a file it raises FileNotFoundError and the cache is
\* as before.
C20_Lookup ==
    [][\A t \in KeyThreads :
         LET cached == EntriesOf(k_arg[t]) # {}
         IN /\ (k_pc[t] = "check" /\ k_pc'[t] # "check")
               => IF cached
                  THEN k_pc'[t] = "read" /\ key_cache' = key_cache
                  ELSE k_pc'[t] = "disk" /\ key_cache' = key_cache
            /\ (k_pc[t] = "read" /\ k_pc'[t] # "read")
               => /\ k_pc'[t] = "done"
                  /\ \E i \in EntriesOf(k_arg[t]) : k_ret'[t] = Ok(key_cache[i].key)
                  /\ k_reads'[t] = 0
                  /\ key_cache' = key_cache
            /\ (k_pc[t] = "disk" /\ k_pc'[t] # "disk")
               => IF k_arg[t] \in SenderPeerFiles
                  THEN /\ k_pc'[t] = "insert"
                       /\ k_reads'[t] = 1
                       /\ k_key'[t] = PublicKey(k_arg[t])
                  ELSE /\ k_pc'[t] = "done"
                       /\ k_ret'[t] = Raise("FileNotFoundError", "Peer key not found")
                       /\ k_reads'[t] = 0
                       /\ key_cache' = key_cache
            /\ (k_pc[t] \in {"insert", "locked"} /\ k_pc'[t] # k_pc[t])
               => \/ k_pc'[t] = "locked" /\ key_cache' = key_cache
                  \/ /\ k_pc'[t] = "done"
                     /\ k_ret'[t] = Ok(PublicKey(k_arg[t]))
                     /\ \E i \in 1..Len(key_cache') :
                           key_cache'[i] = [fp |-> k_arg[t], key |-> PublicKey(k_arg[t])]]_vars

\* one call found the key another call had put into the cache, and one call
\* for a fingerprint without file has failed
C20_Witness ==
    \E t, u \in KeyThreads :
        /\ k_pc[t] = "done" /\ k_arg[t] = "carol" /\ k_reads[t] = 0
        /\ k_ret[t] = Ok(PublicKey("carol"))
        /\ k_pc[u] = "done" /\ k_arg[u] = "mallory"
        /\ k_ret[u] = Raise("FileNotFoundError", "Peer key not found")
        /\ key_cache = <<[fp |-> "carol", key |-> PublicKey("carol")]>>
====
